---------------------------- MODULE Spec2Model ----------------------------
(***************************************************************************)
(* Model of the WebSocket load tester (loadtest.go and its helpers): the   *)
(* orchestrator LoadTest.Run, the connection workers runConnection /       *)
(* sendMessage / recordError, the periodic sampler collectMetrics, the     *)
(* report step printResults and the error classifier categorizeError.      *)
(*                                                                         *)
(* Go strings are modelled as sequences of one-character strings, so that  *)
(* strings.Contains and strings.ToLower are computed, not assumed.         *)
(***************************************************************************)
EXTENDS Integers, Sequences, FiniteSets, TLC

(* ------------------------------ bounds -------------------------------- *)
\* largest opts.Connections drawn in Init
MaxConnections == 2
\* largest opts.Loop drawn in Init
MaxLoop == 2
\* most send/open attempts (Connections * Loop) of a drawn configuration
MaxAttempts == 3

(* --------------------------- string helpers --------------------------- *)
\* strings.ToLower on the letters that occur in the modelled messages
LowerChar(c) ==
    CASE c = "A" -> "a" [] c = "B" -> "b" [] c = "C" -> "c" [] c = "D" -> "d"
      [] c = "E" -> "e" [] c = "F" -> "f" [] c = "G" -> "g" [] c = "H" -> "h"
      [] c = "I" -> "i" [] c = "J" -> "j" [] c = "K" -> "k" [] c = "L" -> "l"
      [] c = "M" -> "m" [] c = "N" -> "n" [] c = "O" -> "o" [] c = "P" -> "p"
      [] c = "Q" -> "q" [] c = "R" -> "r" [] c = "S" -> "s" [] c = "T" -> "t"
      [] c = "U" -> "u" [] c = "V" -> "v" [] c = "W" -> "w" [] c = "X" -> "x"
      [] c = "Y" -> "y" [] c = "Z" -> "z" [] OTHER -> c

ToLower(s) == [k \in 1..Len(s) |-> LowerChar(s[k])]

\* strings.Contains(s, sub)
Contains(s, sub) ==
    \E k \in 0..(Len(s) - Len(sub)) : SubSeq(s, k + 1, k + Len(sub)) = sub

ContainsAny(s, subs) == \E sub \in subs : Contains(s, sub)

(* --------------------------- error classifier ------------------------- *)
ErrorCategoryTimeout            == "timeout"
ErrorCategoryConnectionRefused  == "connection_refused"
ErrorCategoryUnexpectedResponse == "unexpected_response"
ErrorCategoryInvalidData        == "invalid_data"
ErrorCategoryAuthFailure        == "authentication_failure"
ErrorCategoryNetworkError       == "network_error"
ErrorCategoryProtocolError      == "protocol_error"
ErrorCategoryResourceExhaustion == "resource_exhaustion"
ErrorCategoryUnknown            == "unknown"

\* a nil error
NilErr == <<"<nil>">>

PatternsTimeout ==
    { <<"t", "i", "m", "e", "o", "u", "t">>,
      <<"d", "e", "a", "d", "l", "i", "n", "e", " ", "e", "x", "c", "e", "e", "d", "e", "d">>,
      <<"h", "a", "n", "d", "s", "h", "a", "k", "e", " ", "t", "i", "m", "e", "o", "u", "t">> }

PatternsConnectionRefused ==
    { <<"c", "o", "n", "n", "e", "c", "t", "i", "o", "n", " ", "r", "e", "f", "u", "s", "e", "d">>,
      <<"c", "o", "n", "n", "e", "c", "t", ":", " ", "c", "o", "n", "n", "e", "c", "t", "i", "o", "n", " ", "r", "e", "f", "u", "s", "e", "d">>,
      <<"c", "o", "n", "n", "e", "c", "t", "e", "x", ":", " ", "n", "o", " ", "c", "o", "n", "n", "e", "c", "t", "i", "o", "n", " ", "c", "o", "u", "l", "d", " ", "b", "e", " ", "m", "a", "d", "e">>,
      <<"n", "o", " ", "c", "o", "n", "n", "e", "c", "t", "i", "o", "n", " ", "c", "o", "u", "l", "d", " ", "b", "e", " ", "m", "a", "d", "e", " ", "b", "e", "c", "a", "u", "s", "e", " ", "t", "h", "e", " ", "t", "a", "r", "g", "e", "t", " ", "m", "a", "c", "h", "i", "n", "e", " ", "a", "c", "t", "i", "v", "e", "l", "y", " ", "r", "e", "f", "u", "s", "e", "d">> }

PatternsNetworkError ==
    { <<"n", "o", " ", "s", "u", "c", "h", " ", "h", "o", "s", "t">>,
      <<"n", "e", "t", "w", "o", "r", "k", " ", "u", "n", "r", "e", "a", "c", "h", "a", "b", "l", "e">>,
      <<"n", "o", " ", "r", "o", "u", "t", "e", " ", "t", "o", " ", "h", "o", "s", "t">>,
      <<"d", "n", "s">> }

PatternsAuthFailure ==
    { <<"u", "n", "a", "u", "t", "h", "o", "r", "i", "z", "e", "d">>,
      <<"f", "o", "r", "b", "i", "d", "d", "e", "n">>,
      <<"a", "u", "t", "h", "e", "n", "t", "i", "c", "a", "t", "i", "o", "n">>,
      <<"4", "0", "1">>,
      <<"4", "0", "3">> }

PatternsProtocolError ==
    { <<"b", "a", "d", " ", "h", "a", "n", "d", "s", "h", "a", "k", "e">>,
      <<"h", "a", "n", "d", "s", "h", "a", "k", "e", " ", "e", "r", "r", "o", "r">>,
      <<"h", "a", "n", "d", "s", "h", "a", "k", "e">>,
      <<"w", "e", "b", "s", "o", "c", "k", "e", "t">>,
      <<"u", "p", "g", "r", "a", "d", "e">>,
      <<"p", "r", "o", "t", "o", "c", "o", "l">> }

PatternsResourceExhaustion ==
    { <<"t", "o", "o", " ", "m", "a", "n", "y">>,
      <<"r", "e", "s", "o", "u", "r", "c", "e", " ", "t", "e", "m", "p", "o", "r", "a", "r", "i", "l", "y", " ", "u", "n", "a", "v", "a", "i", "l", "a", "b", "l", "e">>,
      <<"o", "u", "t", " ", "o", "f", " ", "m", "e", "m", "o", "r", "y">>,
      <<"n", "o", " ", "b", "u", "f", "f", "e", "r", " ", "s", "p", "a", "c", "e", " ", "a", "v", "a", "i", "l", "a", "b", "l", "e">> }

PatternsUnexpectedResponse ==
    { <<"u", "n", "e", "x", "p", "e", "c", "t", "e", "d">>,
      <<"i", "n", "v", "a", "l", "i", "d", " ", "r", "e", "s", "p", "o", "n", "s", "e">>,
      <<"b", "a", "d", " ", "r", "e", "s", "p", "o", "n", "s", "e">> }

PatternsInvalidData ==
    { <<"i", "n", "v", "a", "l", "i", "d">>,
      <<"m", "a", "l", "f", "o", "r", "m", "e", "d">>,
      <<"p", "a", "r", "s", "e">> }


\* a classifier whose last rule returns the zero value of ErrorCategory
categorizeErrorNoFallback(err) ==
    IF err = NilErr THEN ErrorCategoryUnknown
    ELSE LET errMsg == ToLower(err) IN
         IF ContainsAny(errMsg, PatternsTimeout) THEN ErrorCategoryTimeout
         ELSE IF ContainsAny(errMsg, PatternsConnectionRefused)
              THEN ErrorCategoryConnectionRefused
         ELSE IF ContainsAny(errMsg, PatternsNetworkError)
              THEN ErrorCategoryNetworkError
         ELSE IF ContainsAny(errMsg, PatternsAuthFailure)
              THEN ErrorCategoryAuthFailure
         ELSE IF ContainsAny(errMsg, PatternsProtocolError)
              THEN ErrorCategoryProtocolError
         ELSE IF ContainsAny(errMsg, PatternsResourceExhaustion)
              THEN ErrorCategoryResourceExhaustion
         ELSE IF ContainsAny(errMsg, PatternsUnexpectedResponse)
              THEN ErrorCategoryUnexpectedResponse
         ELSE IF ContainsAny(errMsg, PatternsInvalidData)
              THEN ErrorCategoryInvalidData
         ELSE ""

\* a classifier that tries the protocol rule before the timeout rule
categorizeErrorProtocolFirst(err) ==
    IF err = NilErr THEN ErrorCategoryUnknown
    ELSE LET errMsg == ToLower(err) IN
         IF ContainsAny(errMsg, PatternsProtocolError)
         THEN ErrorCategoryProtocolError
         ELSE IF ContainsAny(errMsg, PatternsTimeout) THEN ErrorCategoryTimeout
         ELSE IF ContainsAny(errMsg, PatternsConnectionRefused)
              THEN ErrorCategoryConnectionRefused
         ELSE IF ContainsAny(errMsg, PatternsNetworkError)
              THEN ErrorCategoryNetworkError
         ELSE IF ContainsAny(errMsg, PatternsAuthFailure)
              THEN ErrorCategoryAuthFailure
         ELSE IF ContainsAny(errMsg, PatternsResourceExhaustion)
              THEN ErrorCategoryResourceExhaustion
         ELSE IF ContainsAny(errMsg, PatternsUnexpectedResponse)
              THEN ErrorCategoryUnexpectedResponse
         ELSE IF ContainsAny(errMsg, PatternsInvalidData)
              THEN ErrorCategoryInvalidData
         ELSE ErrorCategoryUnknown

\* categorizeError: first matching rule wins, on the lower-cased message
categorizeError(err) ==
    IF err = NilErr THEN ErrorCategoryUnknown
    ELSE LET errMsg == ToLower(err) IN
         IF ContainsAny(errMsg, PatternsTimeout) THEN ErrorCategoryTimeout
         ELSE IF ContainsAny(errMsg, PatternsConnectionRefused)
              THEN ErrorCategoryConnectionRefused
         ELSE IF ContainsAny(errMsg, PatternsNetworkError)
              THEN ErrorCategoryNetworkError
         ELSE IF ContainsAny(errMsg, PatternsAuthFailure)
              THEN ErrorCategoryAuthFailure
         ELSE IF ContainsAny(errMsg, PatternsProtocolError)
              THEN ErrorCategoryProtocolError
         ELSE IF ContainsAny(errMsg, PatternsResourceExhaustion)
              THEN ErrorCategoryResourceExhaustion
         ELSE IF ContainsAny(errMsg, PatternsUnexpectedResponse)
              THEN ErrorCategoryUnexpectedResponse
         ELSE IF ContainsAny(errMsg, PatternsInvalidData)
              THEN ErrorCategoryInvalidData
         ELSE ErrorCategoryUnknown

Categories ==
    { ErrorCategoryTimeout, ErrorCategoryConnectionRefused,
      ErrorCategoryUnexpectedResponse, ErrorCategoryInvalidData,
      ErrorCategoryAuthFailure, ErrorCategoryNetworkError,
      ErrorCategoryProtocolError, ErrorCategoryResourceExhaustion,
      ErrorCategoryUnknown }

\* initializeErrorCategories: nine entries, Count 0, no examples
\* (Description is a fixed text per category and is left out)
initializeErrorCategories ==
    [c \in Categories |-> [Count |-> 0, Examples |-> <<>>]]

(* ------------------------- time.ParseDuration ------------------------- *)
\* The grammar of time.ParseDuration on strings without a fraction part:
\* [-+]? ( digits unit )+ , or "0" alone.  The value is kept in whole
\* milliseconds (Run passes duration.Milliseconds() on).
Digits == {"0", "1", "2", "3", "4", "5", "6", "7", "8", "9"}

DigitVal(c) ==
    CASE c = "0" -> 0 [] c = "1" -> 1 [] c = "2" -> 2 [] c = "3" -> 3
      [] c = "4" -> 4 [] c = "5" -> 5 [] c = "6" -> 6 [] c = "7" -> 7
      [] c = "8" -> 8 [] c = "9" -> 9

UnitNames == { <<"n", "s">>, <<"u", "s">>, <<"m", "s">>, <<"s">>, <<"m">>, <<"h">> }

UnitMs(u) ==
    CASE u = <<"m", "s">> -> 1
      [] u = <<"s">> -> 1000
      [] u = <<"m">> -> 60000
      [] u = <<"h">> -> 3600000
      [] OTHER -> 0

RECURSIVE LeadingDigits(_)
LeadingDigits(s) ==
    IF s # <<>> /\ Head(s) \in Digits THEN 1 + LeadingDigits(Tail(s)) ELSE 0

RECURSIVE LeadingUnit(_)
LeadingUnit(s) ==
    IF s # <<>> /\ Head(s) \notin Digits /\ Head(s) # "."
    THEN 1 + LeadingUnit(Tail(s)) ELSE 0

RECURSIVE DecimalValue(_)
DecimalValue(s) ==
    IF s = <<>> THEN 0
    ELSE DecimalValue(SubSeq(s, 1, Len(s) - 1)) * 10 + DigitVal(s[Len(s)])

RECURSIVE ParseGroups(_, _)
ParseGroups(s, acc) ==
    IF s = <<>> THEN [ok |-> TRUE, d |-> acc]
    ELSE LET nd   == LeadingDigits(s)
             rest == SubSeq(s, nd + 1, Len(s))
             nu   == LeadingUnit(rest)
             u    == SubSeq(rest, 1, nu)
         IN  IF nd = 0 \/ nu = 0 \/ u \notin UnitNames
             THEN [ok |-> FALSE, d |-> 0]
             ELSE ParseGroups(SubSeq(rest, nu + 1, Len(rest)),
                              acc + DecimalValue(SubSeq(s, 1, nd)) * UnitMs(u))

ParseDuration(s) ==
    LET signed == s # <<>> /\ Head(s) \in {"-", "+"}
        neg    == s # <<>> /\ Head(s) = "-"
        body   == IF signed THEN Tail(s) ELSE s
        r      == ParseGroups(body, 0)
    IN  IF body = <<"0">> THEN [ok |-> TRUE, d |-> 0]
        ELSE IF body = <<>> THEN [ok |-> FALSE, d |-> 0]
        ELSE IF neg THEN [ok |-> r.ok, d |-> 0 - r.d]
        ELSE r

(* ------------------------- calculatePercentile ------------------------ *)
\* sort.Slice(latencies, less) with less(i, j) = latencies[i] < latencies[j]:
\* the slice ends up ascending
RECURSIVE InsertAscending(_, _)
InsertAscending(s, x) ==
    IF s = <<>> THEN <<x>>
    ELSE IF x < Head(s) THEN <<x>> \o s
    ELSE <<Head(s)>> \o InsertAscending(Tail(s), x)

RECURSIVE SortSlice(_)
SortSlice(s) ==
    IF s = <<>> THEN <<>>
    ELSE InsertAscending(SortSlice(SubSeq(s, 1, Len(s) - 1)), s[Len(s)])

\* a percentile taken from the slice as it was passed in
calculatePercentileUnsorted(latencies, percentile) ==
    IF Len(latencies) = 0 THEN 0
    ELSE LET index == (percentile * Len(latencies)) \div 100
         IN  latencies[(IF index >= Len(latencies)
                        THEN Len(latencies) - 1 ELSE index) + 1]

\* calculatePercentile: 0 for an empty slice, else the element of the sorted
\* slice at index percentile*len/100, clamped to len-1 (Go indexes from 0)
calculatePercentile(latencies, percentile) ==
    IF Len(latencies) = 0 THEN 0
    ELSE LET sorted == SortSlice(latencies)
             index  == (percentile * Len(latencies)) \div 100
         IN  sorted[(IF index >= Len(latencies)
                     THEN Len(latencies) - 1 ELSE index) + 1]

(* ------------------------ validateTestOptions ------------------------- *)
\* strings.HasPrefix
HasPrefix(s, prefix) ==
    Len(s) >= Len(prefix) /\ SubSeq(s, 1, Len(prefix)) = prefix

\* the white space strings.TrimSpace cuts off, among the characters of the
\* modelled messages
SpaceChars == {" ", "\t", "\n", "\r", "\f"}

\* strings.TrimSpace
RECURSIVE TrimSpace(_)
TrimSpace(s) ==
    IF s = <<>> THEN s
    ELSE IF Head(s) \in SpaceChars THEN TrimSpace(Tail(s))
    ELSE IF s[Len(s)] \in SpaceChars THEN TrimSpace(SubSeq(s, 1, Len(s) - 1))
    ELSE s

\* encoding/json: the grammar json.Unmarshal accepts, on texts without
\* exponents in numbers.  Each scanner takes the text and a position and
\* returns the position after what it accepted, or 0.
JsonSpace == {" ", "\t", "\n", "\r"}

HexDigits == Digits \cup {"a", "b", "c", "d", "e", "f", "A", "B", "C", "D", "E", "F"}

RECURSIVE SkipSpace(_, _)
SkipSpace(s, i) ==
    IF i <= Len(s) /\ s[i] \in JsonSpace THEN SkipSpace(s, i + 1) ELSE i

\* after the opening quote
RECURSIVE ScanString(_, _)
ScanString(s, i) ==
    IF i > Len(s) THEN 0
    ELSE IF s[i] = "\"" THEN i + 1
    ELSE IF s[i] \in {"\t", "\n", "\r", "\f"} THEN 0
    ELSE IF s[i] = "\\"
         THEN IF i + 1 > Len(s) THEN 0
              ELSE IF s[i + 1] \in {"\"", "\\", "/", "b", "f", "n", "r", "t"}
                   THEN ScanString(s, i + 2)
              ELSE IF /\ s[i + 1] = "u"
                      /\ i + 5 <= Len(s)
                      /\ \A k \in (i + 2)..(i + 5) : s[k] \in HexDigits
                   THEN ScanString(s, i + 6)
              ELSE 0
    ELSE ScanString(s, i + 1)

RECURSIVE SkipDigits(_, _)
SkipDigits(s, i) ==
    IF i <= Len(s) /\ s[i] \in Digits THEN SkipDigits(s, i + 1) ELSE i

\* -? ( 0 | [1-9][0-9]* ) ( . [0-9]+ )?
ScanNumber(s, i) ==
    LET d == IF s[i] = "-" THEN i + 1 ELSE i
        e == IF d > Len(s) \/ s[d] \notin Digits THEN 0
             ELSE IF s[d] = "0" THEN d + 1
             ELSE SkipDigits(s, d)
    IN  IF e = 0 THEN 0
        ELSE IF e <= Len(s) /\ s[e] = "."
             THEN IF SkipDigits(s, e + 1) = e + 1 THEN 0
                  ELSE SkipDigits(s, e + 1)
        ELSE e

ScanLiteral(s, i, word) ==
    IF i + Len(word) - 1 <= Len(s) /\ SubSeq(s, i, i + Len(word) - 1) = word
    THEN i + Len(word) ELSE 0

RECURSIVE ScanValue(_, _)
RECURSIVE ScanElements(_, _)
RECURSIVE ScanMembers(_, _)

\* the elements of an array, after '[' or ','
ScanElements(s, i) ==
    LET j == ScanValue(s, i)
        k == SkipSpace(s, j)
    IN  IF j = 0 \/ k > Len(s) THEN 0
        ELSE IF s[k] = "," THEN ScanElements(s, k + 1)
        ELSE IF s[k] = "]" THEN k + 1
        ELSE 0

\* the members of an object, after '{' or ','
ScanMembers(s, i) ==
    LET q == SkipSpace(s, i)
        j == IF q <= Len(s) /\ s[q] = "\"" THEN ScanString(s, q + 1) ELSE 0
        c == SkipSpace(s, j)
        v == IF j # 0 /\ c <= Len(s) /\ s[c] = ":" THEN ScanValue(s, c + 1) ELSE 0
        k == SkipSpace(s, v)
    IN  IF v = 0 \/ k > Len(s) THEN 0
        ELSE IF s[k] = "," THEN ScanMembers(s, k + 1)
        ELSE IF s[k] = "}" THEN k + 1
        ELSE 0

ScanValue(s, i) ==
    LET j == SkipSpace(s, i)
    IN  IF j = 0 \/ j > Len(s) THEN 0
        ELSE IF s[j] = "{"
             THEN LET k == SkipSpace(s, j + 1)
                  IN  IF k <= Len(s) /\ s[k] = "}" THEN k + 1
                      ELSE ScanMembers(s, j + 1)
        ELSE IF s[j] = "["
             THEN LET k == SkipSpace(s, j + 1)
                  IN  IF k <= Len(s) /\ s[k] = "]" THEN k + 1
                      ELSE ScanElements(s, j + 1)
        ELSE IF s[j] = "\"" THEN ScanString(s, j + 1)
        ELSE IF s[j] = "t" THEN ScanLiteral(s, j, <<"t", "r", "u", "e">>)
        ELSE IF s[j] = "f" THEN ScanLiteral(s, j, <<"f", "a", "l", "s", "e">>)
        ELSE IF s[j] = "n" THEN ScanLiteral(s, j, <<"n", "u", "l", "l">>)
        ELSE IF s[j] \in Digits \cup {"-"} THEN ScanNumber(s, j)
        ELSE 0

\* isValidJSON: json.Unmarshal into a json.RawMessage succeeds
isValidJSON(str) ==
    LET j == ScanValue(str, 1)
    IN  j # 0 /\ SkipSpace(str, j) = Len(str) + 1

\* url.Parse on "scheme://authority/rest": the scheme in lower case and the
\* host; a space in the authority is a parse error
RECURSIVE UpTo(_, _)
UpTo(s, stops) ==
    IF s = <<>> \/ Head(s) \in stops THEN <<>>
    ELSE <<Head(s)>> \o UpTo(Tail(s), stops)

ParseURL(s) ==
    LET scheme    == UpTo(s, {":"})
        rest      == SubSeq(s, Len(scheme) + 1, Len(s))
        authority == IF HasPrefix(rest, <<":", "/", "/">>)
                     THEN UpTo(SubSeq(rest, 4, Len(rest)), {"/", "?", "#"})
                     ELSE <<>>
    IN  [ ok     |-> \A k \in 1..Len(authority) : authority[k] # " ",
          Scheme |-> ToLower(scheme),
          Host   |-> authority ]

\* validateWebSocketURL: TRUE when it returns no error
validateWebSocketURL(urlStr) ==
    LET prefixed  == IF ~HasPrefix(urlStr, <<"w", "s", ":", "/", "/">>) /\ ~HasPrefix(urlStr, <<"w", "s", "s", ":", "/", "/">>)
                     THEN <<"w", "s", ":", "/", "/">> \o urlStr ELSE urlStr
        parsedURL == ParseURL(prefixed)
    IN  /\ parsedURL.ok
        /\ parsedURL.Scheme \in { <<"w", "s">>, <<"w", "s", "s">> }
        /\ parsedURL.Host # <<>>

\* a validation that forgets the loop count
validateTestOptionsNoLoopCheck(o) ==
    IF ~validateWebSocketURL(o.URL) THEN "URL validation failed"
    ELSE IF ~ParseDuration(o.Duration).ok THEN "invalid duration format"
    ELSE IF o.Connections <= 0 THEN "connections must be greater than 0"
    ELSE IF TrimSpace(o.Message) = <<>> THEN "message cannot be empty"
    ELSE IF /\ \/ HasPrefix(TrimSpace(o.Message), <<"{">>)
               \/ HasPrefix(TrimSpace(o.Message), <<"[">>)
            /\ ~isValidJSON(o.Message)
         THEN "message appears to be JSON but is not valid"
    ELSE "nil"

\* validateTestOptions: the error it returns, "nil" for none
validateTestOptions(o) ==
    IF ~validateWebSocketURL(o.URL) THEN "URL validation failed"
    ELSE IF ~ParseDuration(o.Duration).ok THEN "invalid duration format"
    ELSE IF o.Connections <= 0 THEN "connections must be greater than 0"
    ELSE IF o.Loop <= 0 THEN "loop count must be greater than 0"
    ELSE IF TrimSpace(o.Message) = <<>> THEN "message cannot be empty"
    ELSE IF /\ \/ HasPrefix(TrimSpace(o.Message), <<"{">>)
               \/ HasPrefix(TrimSpace(o.Message), <<"[">>)
            /\ ~isValidJSON(o.Message)
         THEN "message appears to be JSON but is not valid"
    ELSE "nil"

(* ------------------------------ inputs -------------------------------- *)
\* opts.Duration values: one that parses, one that does not
DurationInputs == { <<"1", "0", "s">>, <<"i", "n", "v", "a", "l", "i", "d">> }

\* opts.Message
MessageInput == <<"h", "i">>

\* opts.URL
UrlInput == <<"w", "s", ":", "/", "/", "h">>

\* (Connections, Loop) pairs drawn in Init
Configs ==
    { cl \in (1..MaxConnections) \X (1..MaxLoop) : cl[1] * cl[2] <= MaxAttempts }

\* errors gws.NewClient may return
OpenErrors == { <<"c", "o", "n", "n", "e", "c", "t", "i", "o", "n", " ", "r", "e", "f", "u", "s", "e", "d">> }

\* errors Conn.WriteMessage may return
SendErrors == { <<"i", "/", "o", " ", "T", "i", "m", "e", "o", "u", "t">> }

\* time.Since(startTime) of a successful send, in abstract time units
LatencyValues == {1, 2}

(* ------------------------------- state -------------------------------- *)
VARIABLES
    opts,       \* TestOptions: URL, Duration, Connections, Loop, Message
    results,    \* TestResults without its lock
    mu,         \* results.mu, the sync.RWMutex
    cancelled,  \* lt.ctx is done
    clock,      \* number of time.Now() readings taken by Run
    mpc,        \* position of Run
    nexti,      \* Run's spawn loop variable i
    wg,         \* the sync.WaitGroup counter
    pool,       \* len(connectionPool)
    runErr,     \* what Run returned: "none" while it has not returned
    pc,         \* position of each runConnection goroutine
    iter,       \* runConnection's loop variable i
    conn,       \* state of the worker's gws connection
    out,        \* the outcome a worker is recording
    reg,        \* the value a worker loaded for TotalRequests++
    spc,        \* position of collectMetrics
    report,     \* what printResults computed
    call,       \* a call of a helper function: its arguments and its result
    history     \* TestHistory.Entries as kept in the history file

vars == << opts, results, mu, cancelled, clock, mpc, nexti, wg, pool, runErr,
           pc, iter, conn, out, reg, spc, report, call, history >>

mainVars    == << clock, mpc, nexti, wg, runErr, report >>
workerVars  == << pc, iter, conn, out, reg >>

Workers == 0..(opts.Connections - 1)

None == "none"
NoOutcome == [kind |-> "none"]
NoReport  == [computed |-> FALSE]
NoCall    == [fn |-> "none"]

(* ------------------------------ the lock ------------------------------ *)
\* a lock that excludes nobody
CanLockOpen(m) == TRUE

\* sync.RWMutex: Lock waits until no writer and no reader holds it
CanLock(m) == m.writers = {} /\ m.readers = {}

\* RLock waits until no writer holds it
CanRLock(m) == m.writers = {}

Lock(m, who)    == [m EXCEPT !.writers = @ \cup {who}]
Unlock(m, who)  == [m EXCEPT !.writers = @ \ {who}]
RLock(m, who)   == [m EXCEPT !.readers = @ \cup {who}]
RUnlock(m, who) == [m EXCEPT !.readers = @ \ {who}]

(* ------------------------------- Init --------------------------------- *)
\* the TestResults NewLoadTest builds
NewResults ==
    [ TotalRequests    |-> 0,
      SuccessfulReqs   |-> 0,
      FailedReqs       |-> 0,
      TotalLatency     |-> 0,
      Latencies        |-> <<>>,
      PeakResponseTime |-> 0,
      StartTime        |-> 0,
      EndTime          |-> 0,
      BytesSent        |-> 0,
      BytesReceived    |-> 0,
      ErrorCounts      |-> <<>>,
      ErrorCategories  |-> initializeErrorCategories ]

\* NewLoadTest(opts): the LoadTest as constructed, nothing started
NewLoadTest(o) ==
    /\ opts = o
    /\ results = NewResults
    /\ mu = [writers |-> {}, readers |-> {}]
    /\ cancelled = FALSE
    /\ clock = 0
    /\ mpc = "idle"
    /\ nexti = 0
    /\ wg = 0
    /\ pool = 0
    /\ runErr = None
    /\ pc = [w \in 0..(o.Connections - 1) |-> "unspawned"]
    /\ iter = [w \in 0..(o.Connections - 1) |-> 0]
    /\ conn = [w \in 0..(o.Connections - 1) |-> None]
    /\ out = [w \in 0..(o.Connections - 1) |-> NoOutcome]
    /\ reg = [w \in 0..(o.Connections - 1) |-> 0]
    /\ spc = "unstarted"
    /\ report = NoReport

Init ==
    /\ \E d \in DurationInputs, cl \in Configs :
          NewLoadTest([ URL |-> UrlInput, Duration |-> d, Connections |-> cl[1],
                        Loop |-> cl[2], Message |-> MessageInput ])
    /\ call = NoCall
    /\ history = <<>>

(* ------------------------- runConnection (worker) --------------------- *)
\* a gate whose send adds nothing to the channel
PoolSendLost(n) == n

\* pool <- struct{}{} adds one element to the channel
PoolSend(n) == n + 1

\* a gate whose slot is never given back
PoolRecvLeak(n) == n

\* the deferred <-pool takes one element out
PoolRecv(n) == n - 1

\* a gate with room for one worker only
AcquireGateOfOne(w) ==
    /\ pc[w] = "acquire"
    /\ pool < 1
    /\ pool' = PoolSend(pool)
    /\ pc' = [pc EXCEPT ![w] = "open"]
    /\ UNCHANGED << opts, call, history, results, mu, cancelled, mainVars, iter, conn, out, reg,
                    spc >>

\* pool <- struct{}{} : blocks while the channel is full
Acquire(w) ==
    /\ pc[w] = "acquire"
    /\ pool < opts.Connections
    /\ pool' = PoolSend(pool)
    /\ pc' = [pc EXCEPT ![w] = "open"]
    /\ UNCHANGED << opts, call, history, results, mu, cancelled, mainVars, iter, conn, out, reg,
                    spc >>

\* gws.NewClient succeeded: enter the send loop with i = 0
OpenOk(w) ==
    /\ pc[w] = "open"
    /\ conn' = [conn EXCEPT ![w] = "open"]
    /\ iter' = [iter EXCEPT ![w] = 0]
    /\ pc' = [pc EXCEPT ![w] = "loop"]
    /\ UNCHANGED << opts, call, history, results, mu, cancelled, mainVars, pool, out, reg,
                    spc >>

\* gws.NewClient failed: recordError("client_creation_failed_<id>", err); return
OpenFail(w) ==
    /\ pc[w] = "open"
    /\ \E e \in OpenErrors :
          out' = [out EXCEPT ![w] =
                    [kind |-> "create", key |-> <<"client_creation_failed", w>>,
                     err |-> e]]
    /\ pc' = [pc EXCEPT ![w] = "lock"]
    /\ UNCHANGED << opts, call, history, results, mu, cancelled, mainVars, pool, iter, conn, reg,
                    spc >>

\* a loop that runs one iteration too many
LoopNextOffByOne(i, loop, done) ==
    IF i <= loop THEN (IF done THEN "return" ELSE "send") ELSE "close"

\* a loop that never looks at ctx.Done()
LoopNextIgnoringDone(i, loop, done) == IF i < loop THEN "send" ELSE "close"

\* for i < Loop: select { case <-ctx.Done(): return; default: sendMessage },
\* and WriteClose after the loop
LoopNext(i, loop, done) ==
    IF i < loop THEN (IF done THEN "return" ELSE "send") ELSE "close"

LoopCheck(w) ==
    /\ pc[w] = "loop"
    /\ pc' = [pc EXCEPT ![w] = LoopNext(iter[w], opts.Loop, cancelled)]
    /\ iter' = [iter EXCEPT ![w] = IF pc'[w] = "send" THEN @ ELSE 0]
    /\ UNCHANGED << opts, call, history, results, mu, cancelled, mainVars, pool, conn, out,
                    reg, spc >>

\* client.WriteMessage returned nil after some latency
SendOk(w) ==
    /\ pc[w] = "send"
    /\ \E l \in LatencyValues :
          out' = [out EXCEPT ![w] = [kind |-> "success", latency |-> l]]
    /\ pc' = [pc EXCEPT ![w] = "lock"]
    /\ UNCHANGED << opts, call, history, results, mu, cancelled, mainVars, pool, iter, conn, reg,
                    spc >>

\* a send failure keyed by the connection alone
SendFailNoIter(w) ==
    /\ pc[w] = "send"
    /\ \E e \in SendErrors :
          out' = [out EXCEPT ![w] =
                    [kind |-> "send", key |-> <<"send_failed", w, 0>>,
                     err |-> e]]
    /\ pc' = [pc EXCEPT ![w] = "lock"]
    /\ UNCHANGED << opts, call, history, results, mu, cancelled, mainVars, pool, iter, conn, reg,
                    spc >>

\* client.WriteMessage failed: recordError("send_failed_<id>_<i>", err)
SendFail(w) ==
    /\ pc[w] = "send"
    /\ \E e \in SendErrors :
          out' = [out EXCEPT ![w] =
                    [kind |-> "send", key |-> <<"send_failed", w, iter[w]>>,
                     err |-> e]]
    /\ pc' = [pc EXCEPT ![w] = "lock"]
    /\ UNCHANGED << opts, call, history, results, mu, cancelled, mainVars, pool, iter, conn, reg,
                    spc >>

\* lt.results.mu.Lock() in sendMessage and recordError
RecordLock(w) ==
    /\ pc[w] = "lock"
    /\ CanLock(mu)
    /\ mu' = Lock(mu, w)
    /\ pc' = [pc EXCEPT ![w] = "loadTotal"]
    /\ UNCHANGED << opts, call, history, results, cancelled, mainVars, pool, iter, conn, out, reg,
                    spc >>

\* TotalRequests++ : the load
LoadTotal(w) ==
    /\ pc[w] = "loadTotal"
    /\ reg' = [reg EXCEPT ![w] = results.TotalRequests]
    /\ pc' = [pc EXCEPT ![w] = "storeTotal"]
    /\ UNCHANGED << opts, call, history, results, mu, cancelled, mainVars, pool, iter, conn, out,
                    spc >>

\* TotalRequests++ : the store
StoreTotal(w) ==
    /\ pc[w] = "storeTotal"
    /\ results' = [results EXCEPT !.TotalRequests = reg[w] + 1]
    /\ reg' = [reg EXCEPT ![w] = 0]
    /\ pc' = [pc EXCEPT ![w] = "body"]
    /\ UNCHANGED << opts, call, history, mu, cancelled, mainVars, pool, iter, conn, out,
                    spc >>

\* a critical section that does not add the latency to the running sum
SuccessBodySumLost(r, latency) ==
    [r EXCEPT !.SuccessfulReqs   = @ + 1,
              !.Latencies        = Append(@, latency),
              !.PeakResponseTime = IF latency > @ THEN latency ELSE @,
              !.BytesSent        = @ + Len(opts.Message)]

\* a critical section that takes the last latency as the peak
SuccessBodyPeakLast(r, latency) ==
    [r EXCEPT !.SuccessfulReqs   = @ + 1,
              !.TotalLatency     = @ + latency,
              !.Latencies        = Append(@, latency),
              !.PeakResponseTime = latency,
              !.BytesSent        = @ + Len(opts.Message)]

\* the rest of sendMessage's critical section
SuccessBody(r, latency) ==
    [r EXCEPT !.SuccessfulReqs   = @ + 1,
              !.TotalLatency     = @ + latency,
              !.Latencies        = Append(@, latency),
              !.PeakResponseTime = IF latency > @ THEN latency ELSE @,
              !.BytesSent        = @ + Len(opts.Message)]

\* ErrorCounts[errorType]++ on a Go map: a missing key counts from 0
IncCount(m, k) ==
    [x \in DOMAIN m \cup {k} |->
        IF x = k THEN (IF k \in DOMAIN m THEN m[k] + 1 ELSE 1) ELSE m[x]]

\* a recordError that lets a fourth example in
FailureBodyCapOffByOne(r, key, err) ==
    LET category == categorizeError(err)
        counted  == [r EXCEPT !.FailedReqs  = @ + 1,
                              !.ErrorCounts = IncCount(@, key)]
    IN  IF category \in DOMAIN r.ErrorCategories
        THEN [counted EXCEPT !.ErrorCategories[category] =
                 [Count    |-> @.Count + 1,
                  Examples |-> IF Len(@.Examples) <= 3
                               THEN Append(@.Examples, err)
                               ELSE @.Examples]]
        ELSE counted

\* a recordError that keeps the example and leaves the category's count
FailureBodyCountLost(r, key, err) ==
    LET category == categorizeError(err)
        counted  == [r EXCEPT !.FailedReqs  = @ + 1,
                              !.ErrorCounts = IncCount(@, key)]
    IN  IF category \in DOMAIN r.ErrorCategories
        THEN [counted EXCEPT !.ErrorCategories[category] =
                 [Count    |-> @.Count,
                  Examples |-> IF Len(@.Examples) < 3
                               THEN Append(@.Examples, err)
                               ELSE @.Examples]]
        ELSE counted

\* the rest of recordError's critical section
FailureBody(r, key, err) ==
    LET category == categorizeError(err)
        counted  == [r EXCEPT !.FailedReqs  = @ + 1,
                              !.ErrorCounts = IncCount(@, key)]
    IN  IF category \in DOMAIN r.ErrorCategories
        THEN [counted EXCEPT !.ErrorCategories[category] =
                 [Count    |-> @.Count + 1,
                  Examples |-> IF Len(@.Examples) < 3
                               THEN Append(@.Examples, err)
                               ELSE @.Examples]]
        ELSE counted

\* a worker that gives up after its first failure of any kind
AfterRecordAbortOnFailure(kind) == IF kind = "success" THEN "loop" ELSE "return"

\* a worker that enters the send loop even after a creation failure
AfterRecordAlwaysLoop(kind) == "loop"

\* where the worker goes after recording: runConnection returns after a
\* creation failure, sendMessage returns into the loop's i++
AfterRecord(kind) == IF kind = "create" THEN "return" ELSE "loop"

\* a recording that cancels the run when it records a failure
RecordBodyCancelOnFailure(w) ==
    /\ pc[w] = "body"
    /\ results' = IF out[w].kind = "success"
                  THEN SuccessBody(results, out[w].latency)
                  ELSE FailureBody(results, out[w].key, out[w].err)
    /\ cancelled' = (cancelled \/ out[w].kind # "success")
    /\ mu' = Unlock(mu, w)
    /\ pc' = [pc EXCEPT ![w] = AfterRecord(out[w].kind)]
    /\ iter' = IF out[w].kind = "create" THEN iter
               ELSE [iter EXCEPT ![w] = @ + 1]
    /\ out' = [out EXCEPT ![w] = NoOutcome]
    /\ UNCHANGED << opts, call, history, mainVars, pool, conn, reg, spc >>

\* the rest of the critical section and mu.Unlock()
RecordBody(w) ==
    /\ pc[w] = "body"
    /\ results' = IF out[w].kind = "success"
                  THEN SuccessBody(results, out[w].latency)
                  ELSE FailureBody(results, out[w].key, out[w].err)
    /\ mu' = Unlock(mu, w)
    /\ pc' = [pc EXCEPT ![w] = AfterRecord(out[w].kind)]
    /\ iter' = IF out[w].kind = "create" THEN iter
               ELSE [iter EXCEPT ![w] = @ + 1]
    /\ out' = [out EXCEPT ![w] = NoOutcome]
    /\ UNCHANGED << opts, call, history, cancelled, mainVars, pool, conn, reg, spc >>

\* a close whose failure is recorded as a failed request
CloseEscalating(w) ==
    /\ pc[w] = "close"
    /\ \E ok \in BOOLEAN :
          /\ conn' = [conn EXCEPT ![w] = IF ok THEN "closed" ELSE "closeFailed"]
          /\ results' = IF ok THEN results
                        ELSE [results EXCEPT !.TotalRequests = @ + 1,
                                             !.FailedReqs = @ + 1]
    /\ pc' = [pc EXCEPT ![w] = "return"]
    /\ UNCHANGED << opts, call, history, mu, cancelled, mainVars, pool, iter, out,
                    reg, spc >>

\* client.WriteClose(1000, ...): its error is dropped
Close(w) ==
    /\ pc[w] = "close"
    /\ \E ok \in BOOLEAN :
          conn' = [conn EXCEPT ![w] = IF ok THEN "closed" ELSE "closeFailed"]
    /\ pc' = [pc EXCEPT ![w] = "return"]
    /\ UNCHANGED << opts, call, history, results, mu, cancelled, mainVars, pool, iter, out, reg,
                    spc >>

\* a goroutine that never reports to the WaitGroup
WgDoneMissing(n) == n

\* wg.Done() decrements the WaitGroup counter
WgDone(n) == n - 1

\* return: the deferred <-pool, then the deferred wg.Done() of the goroutine
Return(w) ==
    /\ pc[w] = "return"
    /\ pool' = PoolRecv(pool)
    /\ wg' = WgDone(wg)
    /\ pc' = [pc EXCEPT ![w] = "done"]
    /\ UNCHANGED << opts, call, history, results, mu, cancelled, clock, mpc, nexti, runErr, report,
                    iter, conn, out, reg, spc >>

Worker(w) ==
    \/ Acquire(w) \/ OpenOk(w) \/ OpenFail(w) \/ LoopCheck(w)
    \/ SendOk(w) \/ SendFail(w)
    \/ RecordLock(w) \/ LoadTotal(w) \/ StoreTotal(w) \/ RecordBody(w)
    \/ Close(w) \/ Return(w)

(* ------------------------------- Run ---------------------------------- *)
\* a Run that drops the error of ParseDuration
RunParseBodyErrIgnored ==
    /\ mpc' = "start"
    /\ runErr' = runErr

\* time.ParseDuration(lt.opts.Duration); an error is returned at once
RunParseBody ==
    IF ParseDuration(opts.Duration).ok
    THEN /\ mpc' = "start"
         /\ runErr' = runErr
    ELSE /\ mpc' = "failed"
         /\ runErr' = "invalid duration format"

RunParse ==
    /\ mpc = "idle"
    /\ RunParseBody
    /\ UNCHANGED << opts, call, history, results, mu, cancelled, clock, nexti, wg, report, pool,
                    workerVars, spc >>

\* lt.results.StartTime = time.Now()
RunStart ==
    /\ mpc = "start"
    /\ clock' = clock + 1
    /\ results' = [results EXCEPT !.StartTime = clock + 1]
    /\ mpc' = "goSampler"
    /\ UNCHANGED << opts, call, history, mu, cancelled, nexti, wg, runErr, report, pool,
                    workerVars, spc >>

\* go lt.collectMetrics()
RunGoSampler ==
    /\ mpc = "goSampler"
    /\ spc' = "select"
    /\ nexti' = 0
    /\ mpc' = "spawn"
    /\ UNCHANGED << opts, call, history, results, mu, cancelled, clock, wg, runErr, report, pool,
                    workerVars >>

\* for i < Connections { wg.Add(1); go runConnection(i, pool) }
RunSpawn ==
    /\ mpc = "spawn"
    /\ nexti < opts.Connections
    /\ wg' = wg + 1
    /\ pc' = [pc EXCEPT ![nexti] = "acquire"]
    /\ nexti' = nexti + 1
    /\ UNCHANGED << opts, call, history, results, mu, cancelled, clock, mpc, runErr, report, pool,
                    iter, conn, out, reg, spc >>

RunSpawnEnd ==
    /\ mpc = "spawn"
    /\ nexti >= opts.Connections
    /\ mpc' = "select"
    /\ UNCHANGED << opts, call, history, results, mu, cancelled, clock, nexti, wg, runErr, report,
                    pool, workerVars, spc >>

\* case <-time.After(duration): lt.cancel()
RunTimer ==
    /\ mpc = "select"
    /\ cancelled' = TRUE
    /\ mpc' = "wait"
    /\ UNCHANGED << opts, call, history, results, mu, clock, nexti, wg, runErr, report, pool,
                    workerVars, spc >>

\* a select that goes on as soon as every worker has returned
RunCtxDoneWhenDrained ==
    /\ mpc = "select"
    /\ cancelled \/ wg = 0
    /\ mpc' = "wait"
    /\ UNCHANGED << opts, call, history, results, mu, cancelled, clock, nexti, wg, runErr, report,
                    pool, workerVars, spc >>

\* case <-lt.ctx.Done():
RunCtxDone ==
    /\ mpc = "select"
    /\ cancelled
    /\ mpc' = "wait"
    /\ UNCHANGED << opts, call, history, results, mu, cancelled, clock, nexti, wg, runErr, report,
                    pool, workerVars, spc >>

\* a Wait that returns at once
WaitDoneAtOnce(n) == TRUE

\* wg.Wait() returns when the counter is zero
WaitDone(n) == n = 0

RunWait ==
    /\ mpc = "wait"
    /\ WaitDone(wg)
    /\ mpc' = "end"
    /\ UNCHANGED << opts, call, history, results, mu, cancelled, clock, nexti, wg, runErr, report,
                    pool, workerVars, spc >>

\* lt.results.EndTime = time.Now()
RunEnd ==
    /\ mpc = "end"
    /\ clock' = clock + 1
    /\ results' = [results EXCEPT !.EndTime = clock + 1]
    /\ mpc' = "print"
    /\ UNCHANGED << opts, call, history, mu, cancelled, nexti, wg, runErr, report, pool,
                    workerVars, spc >>

(* ---------------------------- printResults ---------------------------- *)
\* a float64 quotient, kept as numerator and denominator; 0/0 is NaN
Quot(n, d) == [num |-> n, den |-> d]

\* a float64 quotient that is not a number, and one that is the number 0
IsNaN(q)  == q.den = 0 /\ q.num = 0
IsZero(q) == q.den # 0 /\ q.num = 0

\* the values printResults derives and prints
MakeReport(r) ==
    LET duration == r.EndTime - r.StartTime
        n        == Len(r.Latencies)
    IN  [ computed       |-> TRUE,
          totalRequests  |-> r.TotalRequests,
          successfulReqs |-> r.SuccessfulReqs,
          failedReqs     |-> r.FailedReqs,
          successRate    |-> Quot(r.SuccessfulReqs * 100, r.TotalRequests),
          avgLatency     |-> IF r.SuccessfulReqs > 0
                             THEN r.TotalLatency \div r.SuccessfulReqs ELSE 0,
          p50Latency     |-> IF n > 0 THEN r.Latencies[(n \div 2) + 1] ELSE 0,
          peak           |-> r.PeakResponseTime,
          rps            |-> Quot(r.TotalRequests, duration),
          throughput     |-> Quot(r.BytesSent + r.BytesReceived, duration) ]

PrintRLock ==
    /\ mpc = "print"
    /\ CanRLock(mu)
    /\ mu' = RLock(mu, "main")
    /\ mpc' = "printing"
    /\ UNCHANGED << opts, call, history, results, cancelled, clock, nexti, wg, runErr, report,
                    pool, workerVars, spc >>

PrintResultsSorting ==
    /\ mpc = "printing"
    /\ report' = MakeReport(results)
    /\ results' = [results EXCEPT !.Latencies = SortSlice(@)]
    /\ mu' = RUnlock(mu, "main")
    /\ mpc' = "done"
    /\ runErr' = "nil"
    /\ UNCHANGED << opts, call, history, cancelled, clock, nexti, wg, pool,
                    workerVars, spc >>

\* the body of printResults, its deferred RUnlock, and Run's return nil
PrintResults ==
    /\ mpc = "printing"
    /\ report' = MakeReport(results)
    /\ mu' = RUnlock(mu, "main")
    /\ mpc' = "done"
    /\ runErr' = "nil"
    /\ UNCHANGED << opts, call, history, results, cancelled, clock, nexti, wg, pool,
                    workerVars, spc >>

(* ------------------------------ history ------------------------------- *)
\* most entries the history file holds
MaxEntries == 3

\* a float64 quotient json.Marshal can encode: neither NaN nor an infinity
IsFinite(q) == q.den # 0

newIDStuck(entries) ==
    IF Len(entries) > 0 THEN entries[Len(entries)].ID ELSE 1

\* addEntry's "Generate new ID"
newID(entries) ==
    IF Len(entries) > 0 THEN entries[Len(entries)].ID + 1 ELSE 1

\* the TestHistoryEntry addEntry builds from the LoadTest; P50 is read from
\* a sorted copy of the latencies
MakeEntry(entries, r, o) ==
    LET duration        == r.EndTime - r.StartTime
        n               == Len(r.Latencies)
        sortedLatencies == SortSlice(r.Latencies)
    IN  [ ID             |-> newID(entries),
          Timestamp      |-> r.StartTime,
          URL            |-> o.URL,
          Duration       |-> o.Duration,
          ActualDuration |-> duration,
          Connections    |-> o.Connections,
          Message        |-> o.Message,
          LoopCount      |-> o.Loop,
          TotalRequests  |-> r.TotalRequests,
          SuccessfulReqs |-> r.SuccessfulReqs,
          FailedReqs     |-> r.FailedReqs,
          SuccessRate    |-> Quot(r.SuccessfulReqs * 100, r.TotalRequests),
          AvgLatency     |-> IF r.SuccessfulReqs > 0
                             THEN Quot(r.TotalLatency, r.SuccessfulReqs)
                             ELSE Quot(0, 1),
          P50Latency     |-> IF n > 0 THEN sortedLatencies[(n \div 2) + 1] ELSE 0,
          RequestsPerSec |-> Quot(r.TotalRequests, duration),
          Throughput     |-> Quot(r.BytesSent + r.BytesReceived, duration),
          BytesSent      |-> r.BytesSent,
          BytesReceived  |-> r.BytesReceived,
          ErrorCounts    |-> r.ErrorCounts ]

\* json.MarshalIndent(th, ...): a float that is NaN or infinite is an
\* unsupported value
Marshals(entries) ==
    \A i \in 1..Len(entries) :
        /\ IsFinite(entries[i].SuccessRate)
        /\ IsFinite(entries[i].AvgLatency)
        /\ IsFinite(entries[i].RequestsPerSec)
        /\ IsFinite(entries[i].Throughput)

\* saveHistory: the entries in the history file afterwards, file being the
\* entries in it before; writeOk is whether os.WriteFile succeeds
saveHistory(file, entries, writeOk) ==
    IF Marshals(entries) /\ writeOk THEN entries ELSE file

\* loadHistory() and th.addEntry(lt), by the entries in the history file
addEntry(file, r, o, writeOk) ==
    saveHistory(file, Append(file, MakeEntry(file, r, o)), writeOk)

\* loadHistory() and th.clearHistory()
clearHistory(file, writeOk) == saveHistory(file, <<>>, writeOk)

getLastNEntriesAll(entries, n) == entries

\* th.getLastNEntries(n)
getLastNEntries(entries, n) ==
    IF n <= 0 \/ Len(entries) = 0 THEN <<>>
    ELSE LET start == IF Len(entries) - n < 0 THEN 0 ELSE Len(entries) - n
         IN  SubSeq(entries, start + 1, Len(entries))

\* the metrics runVisualize accepts
ValidMetrics == { "success-rate", "requests-per-sec", "avg-latency", "throughput" }

\* the value generateComparisonChart plots for an entry
MetricValue(entry, metric) ==
    CASE metric = "success-rate"     -> entry.SuccessRate
      [] metric = "requests-per-sec" -> entry.RequestsPerSec
      [] metric = "avg-latency"      -> entry.AvgLatency
      [] metric = "throughput"       -> entry.Throughput
      [] OTHER                       -> entry.SuccessRate

NoHistoryFound == "No test history found."
NeedTwoResults == "Need at least 2 test results for comparison."

\* th.generateComparisonChart(metric, limit): the message printed in place
\* of a chart, the values plotted, and whether saveChartAsText wrote the
\* chart file (a failed write is only a warning)
generateComparisonChart(entries, metric, limit, writeOk) ==
    IF Len(entries) = 0
    THEN [ message |-> NoHistoryFound, values |-> <<>>, saved |-> FALSE ]
    ELSE LET selected == getLastNEntries(entries, limit)
         IN  IF Len(selected) < 2
             THEN [ message |-> NeedTwoResults, values |-> <<>>, saved |-> FALSE ]
             ELSE [ message |-> "",
                    values  |-> [ i \in 1..Len(selected) |->
                                    MetricValue(selected[i], metric) ],
                    saved   |-> writeOk ]

(* --------------------------- collectMetrics --------------------------- *)
\* case <-ticker.C: followed by lt.results.mu.RLock()
SamplerTick ==
    /\ spc = "select"
    /\ CanRLock(mu)
    /\ mu' = RLock(mu, "sampler")
    /\ spc' = "read"
    /\ UNCHANGED << opts, call, history, results, cancelled, mainVars, pool, workerVars >>

\* a sampler whose select has no ctx.Done() case
SamplerStopOnlyTicker ==
    /\ spc = "select"
    /\ cancelled
    /\ spc' = "select"
    /\ UNCHANGED << opts, call, history, results, mu, cancelled, mainVars, pool, workerVars >>

\* case <-lt.ctx.Done(): return
SamplerStop ==
    /\ spc = "select"
    /\ cancelled
    /\ spc' = "done"
    /\ UNCHANGED << opts, call, history, results, mu, cancelled, mainVars, pool, workerVars >>

\* what one tick reads under RLock: rps (its numerator is kept),
\* peakResponseTime and errorCategoryMetrics
Sample(r) ==
    [ totalRequests        |-> r.TotalRequests,
      peakResponseTime     |-> r.PeakResponseTime,
      errorCategoryMetrics |->
          [c \in DOMAIN r.ErrorCategories |-> r.ErrorCategories[c].Count] ]

\* the gauges one tick sets in the metrics sink: rps, peak_response_time_ms,
\* and error_category_count for every entry of errorCategoryMetrics
EmittedGauges(s) ==
    { <<"rps", s.totalRequests>>,
      <<"peak_response_time_ms", s.peakResponseTime>> }
    \cup { <<"error_category_count", c, s.errorCategoryMetrics[c]>> :
              c \in DOMAIN s.errorCategoryMetrics }

\* the reads under RLock, RUnlock, and the SetGaugeWithLabels calls on the
\* values read; the sink is write-only for the program and keeps no state here
SamplerRead ==
    /\ spc = "read"
    /\ mu' = RUnlock(mu, "sampler")
    /\ spc' = "select"
    /\ UNCHANGED << opts, call, history, results, cancelled, mainVars, pool, workerVars >>

(* ----------------------------- environment ---------------------------- *)
\* lt.cancel() called from outside Run, on a LoadTest that exists
ExternalCancel ==
    /\ mpc \notin {"runTest", "exited"}
    /\ ~cancelled
    /\ cancelled' = TRUE
    /\ UNCHANGED << opts, call, history, results, mu, mainVars, pool, workerVars, spc >>

(* ------------------------------- Next --------------------------------- *)
Next ==
    \/ \E w \in Workers : Worker(w)
    \/ RunParse \/ RunStart \/ RunGoSampler \/ RunSpawn \/ RunSpawnEnd
    \/ RunTimer \/ RunCtxDone \/ RunWait \/ RunEnd
    \/ PrintRLock \/ PrintResults
    \/ SamplerTick \/ SamplerStop \/ SamplerRead
    \/ ExternalCancel

Spec == Init /\ [][Next]_vars

(* ------------------------------ fairness ------------------------------ *)
\* a step of Run or of a worker
RunStep ==
    \/ RunParse \/ RunStart \/ RunGoSampler \/ RunSpawn \/ RunSpawnEnd
    \/ RunTimer \/ RunCtxDone \/ RunWait \/ RunEnd
    \/ PrintRLock \/ PrintResults

Progress == RunStep \/ \E w \in Workers : Worker(w)

\* The Go scheduler runs every goroutine that can take a step, the timer of
\* time.After fires, and a goroutine blocked in mu.Lock() gets the lock
\* (sync.RWMutex holds new readers back once a writer waits).  Together these
\* give: a reader releases the lock, and as long as Run or a worker can
\* again and again take a step, one of them does.
FairSpec ==
    /\ Spec
    /\ WF_vars(SamplerRead)
    /\ SF_vars(Progress)

\* collectMetrics' select: once ctx.Done() is closed that case is ready at
\* every evaluation of the select, while the ticker is ready once a second
\* at most, and Go picks among the ready cases at random: a case that is
\* ready again and again is eventually taken.
SamplerFairSpec ==
    /\ FairSpec
    /\ SF_vars(SamplerStop)

(* -------------------- calls of the helper functions ------------------- *)
\* longest latency slice passed to calculatePercentile, and its largest value
MaxSamples == 3
\* most failures recorded in a row through recordError
MaxRecords == 4

\* the percentile argument
PercentileInputs == 0..100

\* the latencies argument: every slice of up to MaxSamples samples, and the
\* five samples of TestCalculatePercentile in three orders
LatencySlices ==
    UNION { [1..n -> 1..MaxSamples] : n \in 0..MaxSamples }
    \cup { <<1, 2, 3, 4, 5>>, <<5, 4, 3, 2, 1>>, <<3, 1, 5, 2, 4>> }

\* err.Error() of the errors passed to categorizeError
ErrorInputs ==
    { <<"t", "i", "m", "e", "o", "u", "t", " ", "i", "n", "v", "a", "l", "i", "d">>,
      <<"i", "n", "v", "a", "l", "i", "d", " ", "f", "r", "a", "m", "e", ":", " ", "T", "i", "m", "e", "o", "u", "t">>,
      <<"h", "a", "n", "d", "s", "h", "a", "k", "e", " ", "t", "i", "m", "e", "o", "u", "t">>,
      <<"T", "L", "S", " ", "H", "a", "n", "d", "s", "h", "a", "k", "e", " ", "T", "i", "m", "e", "o", "u", "t">>,
      <<"c", "o", "n", "t", "e", "x", "t", " ", "d", "e", "a", "d", "l", "i", "n", "e", " ", "e", "x", "c", "e", "e", "d", "e", "d">>,
      <<"C", "o", "n", "n", "e", "c", "t", "i", "o", "n", " ", "R", "e", "f", "u", "s", "e", "d">>,
      <<"d", "i", "a", "l", " ", "t", "c", "p", ":", " ", "c", "o", "n", "n", "e", "c", "t", "i", "o", "n", " ", "r", "e", "f", "u", "s", "e", "d">>,
      <<"n", "o", " ", "s", "u", "c", "h", " ", "h", "o", "s", "t">>,
      <<"D", "N", "S", " ", "u", "n", "a", "u", "t", "h", "o", "r", "i", "z", "e", "d">>,
      <<"4", "0", "1", " ", "U", "n", "a", "u", "t", "h", "o", "r", "i", "z", "e", "d">>,
      <<"4", "0", "3", " ", "w", "e", "b", "s", "o", "c", "k", "e", "t">>,
      <<"b", "a", "d", " ", "h", "a", "n", "d", "s", "h", "a", "k", "e">>,
      <<"w", "e", "b", "s", "o", "c", "k", "e", "t", ":", " ", "t", "o", "o", " ", "m", "a", "n", "y">>,
      <<"t", "o", "o", " ", "m", "a", "n", "y", " ", "o", "p", "e", "n", " ", "f", "i", "l", "e", "s">>,
      <<"u", "n", "e", "x", "p", "e", "c", "t", "e", "d", " ", "E", "O", "F">>,
      <<"i", "n", "v", "a", "l", "i", "d", " ", "r", "e", "s", "p", "o", "n", "s", "e">>,
      <<"I", "n", "v", "a", "l", "i", "d", " ", "f", "r", "a", "m", "e">>,
      <<"m", "a", "l", "f", "o", "r", "m", "e", "d">>,
      <<"E", "O", "F">>,
      <<>> }

\* the errors recorded in a row: two messages of one category and one of
\* another
RecordedErrors ==
    { <<"t", "i", "m", "e", "o", "u", "t">>, <<"i", "/", "o", " ", "T", "i", "m", "e", "o", "u", "t">>, <<"c", "o", "n", "n", "e", "c", "t", "i", "o", "n", " ", "r", "e", "f", "u", "s", "e", "d">> }

\* the options of the LoadTest the helper functions are called on
HelperOpts ==
    [ URL |-> UrlInput, Duration |-> <<"1", "0", "s">>, Connections |-> 1,
      Loop |-> MaxRecords, Message |-> MessageInput ]

\* recordError as one step: Lock, TotalRequests++, the rest, Unlock
recordError(r, errorType, err) ==
    FailureBody([r EXCEPT !.TotalRequests = @ + 1], errorType, err)

\* the finished runs handed to addEntry: two successes recorded in
\* descending order of latency, one failure, and no attempt at all
HistoryRuns ==
    { [NewResults EXCEPT !.TotalRequests = 2, !.SuccessfulReqs = 2,
                         !.TotalLatency = 3, !.Latencies = <<2, 1>>,
                         !.PeakResponseTime = 2, !.BytesSent = 4,
                         !.StartTime = 1, !.EndTime = 2],
      [NewResults EXCEPT !.TotalRequests = 1, !.FailedReqs = 1,
                         !.StartTime = 1, !.EndTime = 2],
      [NewResults EXCEPT !.StartTime = 1, !.EndTime = 2] }

\* the --limit argument of the visualize command
LimitInputs == -1..MaxEntries

\* the history commands called so far: the last one, its arguments and what
\* it printed
HistoryCall(op, cleared, metric, limit, chart) ==
    [ fn |-> "history", op |-> op, cleared |-> cleared, metric |-> metric,
      limit |-> limit, message |-> chart.message, values |-> chart.values,
      saved |-> chart.saved ]

NoChart == [ message |-> "", values |-> <<>>, saved |-> FALSE ]

progVars == << opts, mu, cancelled, mainVars, pool, workerVars, spc >>

FnInit ==
    /\ NewLoadTest(HelperOpts)
    /\ \/ \E s \in LatencySlices, p \in PercentileInputs :
             call = [ fn |-> "calculatePercentile", arg |-> s, latencies |-> s,
                      percentile |-> p, returned |-> FALSE, ret |-> 0 ]
       \/ \E e \in ErrorInputs \cup {NilErr} :
             call = [ fn |-> "categorizeError", err |-> e,
                      returned |-> FALSE, ret |-> "" ]
       \/ call = [ fn |-> "recordError", log |-> <<>> ]
       \/ call = HistoryCall("none", FALSE, "", 0, NoChart)
    /\ history = <<>>

\* calculatePercentile(latencies, percentile): the caller's slice is sorted
\* in place; call.arg keeps the slice as it was passed
CallPercentile ==
    /\ call.fn = "calculatePercentile"
    /\ ~call.returned
    /\ call' = [call EXCEPT
                  !.ret = calculatePercentile(call.latencies, call.percentile),
                  !.latencies = SortSlice(@),
                  !.returned = TRUE]
    /\ UNCHANGED << results, history, progVars >>

\* categorizeError(err)
CallCategorize ==
    /\ call.fn = "categorizeError"
    /\ ~call.returned
    /\ call' = [call EXCEPT !.ret = categorizeError(call.err),
                            !.returned = TRUE]
    /\ UNCHANGED << results, history, progVars >>

\* lt.recordError("send_failed_0_<i>", err) of the i-th send of worker 0;
\* the messages passed so far are kept in call.log
CallRecordError ==
    /\ call.fn = "recordError"
    /\ Len(call.log) < MaxRecords
    /\ \E e \in RecordedErrors :
          /\ results' = recordError(results, <<"send_failed", 0, Len(call.log)>>, e)
          /\ call' = [call EXCEPT !.log = Append(@, e)]
    /\ UNCHANGED << history, progVars >>

\* runTest's tail on a finished run: loadHistory() and history.addEntry(test)
CallAddEntry ==
    /\ call.fn = "history"
    /\ Len(history) < MaxEntries
    /\ \E r \in HistoryRuns, writeOk \in BOOLEAN :
          history' = addEntry(history, r, opts, writeOk)
    /\ call' = HistoryCall("addEntry", call.cleared, "", 0, NoChart)
    /\ UNCHANGED << results, progVars >>

\* runHistory with --clear: loadHistory() and history.clearHistory()
CallClearHistory ==
    /\ call.fn = "history"
    /\ \E writeOk \in BOOLEAN :
          /\ history' = clearHistory(history, writeOk)
          /\ call' = HistoryCall("clearHistory", call.cleared \/ writeOk, "", 0,
                                 NoChart)
    /\ UNCHANGED << results, progVars >>

\* runVisualize: loadHistory() and
\* history.generateComparisonChart(opts.Metric, opts.Limit)
CallChart ==
    /\ call.fn = "history"
    /\ \E metric \in ValidMetrics, limit \in LimitInputs, writeOk \in BOOLEAN :
          call' = HistoryCall("generateComparisonChart", call.cleared, metric,
                              limit,
                              generateComparisonChart(history, metric, limit,
                                                      writeOk))
    /\ UNCHANGED << results, history, progVars >>

FnNext ==
    \/ CallPercentile \/ CallCategorize \/ CallRecordError
    \/ CallAddEntry \/ CallClearHistory \/ CallChart

FnSpec == FnInit /\ [][FnNext]_vars

(* ------------------------------ runTest ------------------------------- *)
\* the options runTest may be called with
ValidationURLs == { <<"w", "s", ":", "/", "/", "h">>, <<"h">>, <<>>, <<"w", "s", ":", "/", "/", "a", " ", "b">> }

ValidationMessages ==
    { <<"h", "i">>, <<>>, <<" ", " ">>, <<"{", "}">>, <<"{", "\"", "a", "\"", ":", "1", "}">>, <<"{", "\"", "a", "\"", ":", "1">>,
      <<"[", "1", ",", "2", "]">>, <<"[", "1", ",">>, <<" ", "{", "\"", "a", "\"", ":", "1", "}">>, <<" ", "{", "a">> }

\* the -d values runTest may be called with: those of Run, a zero and a
\* negative duration
ValidationDurations == DurationInputs \cup { <<"0", "s">>, <<"-", "5", "s">> }

ValidationInputs ==
    { [ URL |-> u, Duration |-> d, Connections |-> c, Loop |-> l, Message |-> m ] :
        u \in ValidationURLs, d \in ValidationDurations, c \in -1..1,
        l \in 0..MaxLoop,
        m \in ValidationMessages }

\* no TestResults exists before NewLoadTest has run
NilResults == [constructed |-> FALSE]

\* runTest is entered with the parsed options; no LoadTest exists yet
TestInit ==
    /\ opts \in ValidationInputs
    /\ results = NilResults
    /\ mu = [writers |-> {}, readers |-> {}]
    /\ cancelled = FALSE
    /\ clock = 0
    /\ mpc = "runTest"
    /\ nexti = 0
    /\ wg = 0
    /\ pool = 0
    /\ runErr = None
    /\ pc = [w \in Workers |-> "unspawned"]
    /\ iter = [w \in Workers |-> 0]
    /\ conn = [w \in Workers |-> None]
    /\ out = [w \in Workers |-> NoOutcome]
    /\ reg = [w \in Workers |-> 0]
    /\ spc = "unstarted"
    /\ report = NoReport
    /\ call = NoCall
    /\ history = <<>>

\* runTest: validateTestOptions(opts); on an error os.Exit(1), otherwise
\* NewLoadTest(opts), and test.Run() is called next
RunTestValidate ==
    /\ mpc = "runTest"
    /\ IF validateTestOptions(opts) = "nil"
       THEN /\ results' = NewResults
            /\ mpc' = "idle"
            /\ runErr' = runErr
       ELSE /\ results' = results
            /\ mpc' = "exited"
            /\ runErr' = validateTestOptions(opts)
    /\ UNCHANGED << opts, call, history, mu, cancelled, clock, nexti, wg, report, pool,
                    workerVars, spc >>

\* runTest after test.Run() returned nil: loadHistory(), and unless that
\* failed, history.addEntry(test) under the read lock
RunTestAddEntry ==
    /\ mpc = "done"
    /\ runErr = "nil"
    /\ CanRLock(mu)
    /\ \E loadOk, writeOk \in BOOLEAN :
          history' = IF loadOk THEN addEntry(history, results, opts, writeOk)
                     ELSE history
    /\ mpc' = "returned"
    /\ UNCHANGED << opts, call, results, mu, cancelled, clock, nexti, wg, runErr,
                    report, pool, workerVars, spc >>

TestNext == RunTestValidate \/ Next \/ RunTestAddEntry

TestSpec == TestInit /\ [][TestNext]_vars

(* ------------------------- derived definitions ------------------------ *)
\* the orchestrator's lifecycle state, read off the position of Run
Phase ==
    CASE mpc = "idle"   -> "Idle"
      [] mpc = "failed" -> "Failed"
      [] mpc \in {"start", "goSampler", "spawn", "select"} -> "Running"
      [] mpc = "wait"   -> "Draining"
      [] OTHER          -> "Completed"

\* workers between the channel send and the deferred receive
Holders == { w \in Workers : pc[w] \notin {"unspawned", "acquire", "done"} }

AllReturned == \A w \in Workers : pc[w] = "done"

\* the worker ran its whole loop and went on to WriteClose
LoopCompleted(w) == conn[w] \in {"closed", "closeFailed"}

CreationKey(w) == <<"client_creation_failed", w>>

SendKeys(w) == { <<"send_failed", w, i>> : i \in 0..(opts.Loop - 1) }

DurationOK == ParseDuration(opts.Duration).ok

\* the largest element of a sequence of latencies, 0 for none
SeqMax(s) ==
    IF s = <<>> THEN 0
    ELSE CHOOSE m \in {s[k] : k \in 1..Len(s)} : \A k \in 1..Len(s) : s[k] <= m

\* strconv.Itoa of a non-negative int, as %d prints it
RECURSIVE Itoa(_)
Itoa(n) ==
    LET digit == <<"0", "1", "2", "3", "4", "5", "6", "7", "8", "9">>[(n % 10) + 1]
    IN  IF n < 10 THEN <<digit>> ELSE Append(Itoa(n \div 10), digit)

\* the errorType string of a key: fmt.Sprintf("client_creation_failed_%d",
\* connID) and fmt.Sprintf("send_failed_%d_%d", connID, msgID)
ErrorType(key) ==
    IF key[1] = "client_creation_failed"
    THEN <<"c", "l", "i", "e", "n", "t", "_", "c", "r", "e", "a", "t", "i", "o", "n", "_", "f", "a", "i", "l", "e", "d", "_">> \o Itoa(key[2])
    ELSE <<"s", "e", "n", "d", "_", "f", "a", "i", "l", "e", "d", "_">> \o Itoa(key[2]) \o <<"_">> \o Itoa(key[3])

\* the positions from which a worker still records an outcome even with the
\* cancellation signal set: before its open, or inside a send or a record
\* whose cancellation check is behind it
RecordingPositions ==
    { "unspawned", "acquire", "open", "send", "lock", "loadTotal",
      "storeTotal", "body" }

\* the outcomes recorded so far
Outcomes(r) == r.SuccessfulReqs + r.FailedReqs

\* the sum of a sequence of latencies
RECURSIVE SeqSum(_)
SeqSum(s) == IF s = <<>> THEN 0 ELSE Head(s) + SeqSum(Tail(s))

\* the sum of the Count fields of the categories in cs
RECURSIVE CategoryCountSum(_, _)
CategoryCountSum(r, cs) ==
    IF cs = {} THEN 0
    ELSE LET c == CHOOSE x \in cs : TRUE
         IN  r.ErrorCategories[c].Count + CategoryCountSum(r, cs \ {c})

(* ------------------------------- claims ------------------------------- *)
\* C1: whenever no writer holds results.mu (every state a reader can
\* observe), TotalRequests = SuccessfulReqs + FailedReqs.
C1_TotalIsSuccessPlusFailure ==
    mu.writers = {} =>
        results.TotalRequests = results.SuccessfulReqs + results.FailedReqs

\* a reader holds the lock after successes and failures were recorded
C1_Witness ==
    /\ mu.readers # {}
    /\ results.SuccessfulReqs >= 1
    /\ results.FailedReqs >= 1

\* C2: no update is lost: once all workers have returned, each having run
\* its whole loop with no failure recorded (so each recorded exactly Loop
\* successes; one each when Loop = 1), TotalRequests, SuccessfulReqs and
\* the number of latency samples all equal Connections * Loop.
C2_NoLostUpdate ==
    ( /\ AllReturned
      /\ \A w \in Workers : LoopCompleted(w)
      /\ DOMAIN results.ErrorCounts = {} )
    => /\ results.TotalRequests = opts.Connections * opts.Loop
       /\ results.SuccessfulReqs = opts.Connections * opts.Loop
       /\ Len(results.Latencies) = opts.Connections * opts.Loop

\* two workers have each recorded their one success and returned
C2_Witness ==
    /\ opts.Connections = 2 /\ opts.Loop = 1
    /\ AllReturned
    /\ \A w \in Workers : LoopCompleted(w)
    /\ results.SuccessfulReqs = 2

\* C3: the workers holding a gate slot are never more than Connections:
\* each holder occupies one element of the channel, whose length never
\* exceeds its capacity.
C3_GateBound ==
    /\ Cardinality(Holders) <= opts.Connections
    /\ Cardinality(Holders) <= pool
    /\ pool <= opts.Connections

\* two workers hold a slot at once
C3_Witness == Cardinality(Holders) = 2 /\ pool = 2

\* C4: every acquired slot is released on every exit path: once all workers
\* have returned the gate is empty, and a worker at the gate always finds
\* a free slot, so none is blocked there.
C4_SlotsReleased ==
    /\ AllReturned => pool = 0
    /\ \A w \in Workers : pc[w] = "acquire" => pool < opts.Connections

\* all workers returned and the gate is empty, one worker having left on a
\* creation failure and one on a cancellation seen in its loop
C4_Witness ==
    /\ AllReturned /\ pool = 0
    /\ \E w \in Workers : conn[w] = None
    /\ \E w \in Workers : conn[w] = "open"

\* one step of the lifecycle: an allowed transition, and out of Idle into
\* Failed exactly when the duration string does not parse
C5_Step ==
    /\ Phase' # Phase =>
          <<Phase, Phase'>> \in { <<"Idle", "Running">>, <<"Running", "Draining">>,
                                  <<"Draining", "Completed">>, <<"Idle", "Failed">> }
    /\ (Phase = "Idle" /\ Phase' # "Idle") => (Phase' = "Failed" <=> ~DurationOK)

\* C5: the lifecycle only moves Idle -> Running -> Draining -> Completed or
\* Idle -> Failed (both Completed and Failed are terminal), and leaves Idle
\* for Failed exactly when the duration string does not parse.
C5_Lifecycle == [][C5_Step]_vars

\* a run went through all of its states and completed
C5_Witness == Phase = "Completed" /\ mpc = "done"

\* C6: when the duration does not parse, Run returns an error and never
\* starts: no worker, no sampler, no start time, aggregate untouched.
C6_FailedRunStartsNothing ==
    ~DurationOK =>
        /\ mpc \in {"idle", "failed"}
        /\ mpc = "failed" => runErr = "invalid duration format"
        /\ \A w \in Workers : pc[w] = "unspawned"
        /\ spc = "unstarted"
        /\ wg = 0 /\ pool = 0
        /\ results = NewResults

\* Run has returned its error
C6_Witness == mpc = "failed" /\ runErr = "invalid duration format"

\* from the recording of the end time on, all workers have returned, no
\* writer holds the lock and the step leaves the aggregate as it is
C7_Step ==
    /\ Phase = "Completed" => AllReturned /\ mu.writers = {}
    /\ results.EndTime # 0 => results' = results

\* C7: the end time is recorded and the report computed only after every
\* worker has returned, and the aggregate no longer changes once the end
\* time is recorded.
C7_ReportAfterDrain == [][C7_Step]_vars

\* a report was computed from an aggregate that holds outcomes
C7_Witness == report.computed /\ results.TotalRequests >= 2

\* with the signal set, a worker is in a send after the step only if it
\* was in that send before it
C8_Step ==
    cancelled => \A w \in Workers : pc'[w] = "send" => pc[w] = "send"

\* C8: once the cancellation signal is set, no worker passes its
\* cancellation check into a new send; only a send whose check came before
\* the signal may still complete.
C8_NoNewSendAfterCancel == [][C8_Step]_vars

\* after cancellation one worker stopped at the check with repeats left
\* while another one is still in its send
C8_Witness ==
    /\ cancelled
    /\ \E w \in Workers : pc[w] = "done" /\ conn[w] = "open"
    /\ \E w \in Workers : pc[w] = "send"

\* C9: when the duration parses, Run eventually completes, reports and
\* returns nil, whatever failed on the way.
C9_RunCompletes ==
    DurationOK ~> (mpc = "done" /\ runErr = "nil" /\ report.computed)

\* a run completed although every attempt failed
C9_Witness ==
    /\ mpc = "done" /\ runErr = "nil" /\ report.computed
    /\ results.TotalRequests >= 2
    /\ results.FailedReqs = results.TotalRequests

\* C10: a worker whose open failed has recorded exactly one failure, under
\* the key client_creation_failed_<id>, never sends and returns.
C10_CreationFailure ==
    \A w \in Workers :
        /\ CreationKey(w) \in DOMAIN results.ErrorCounts =>
              /\ results.ErrorCounts[CreationKey(w)] = 1
              /\ pc[w] \in {"return", "done"}
              /\ conn[w] = None
              /\ SendKeys(w) \cap DOMAIN results.ErrorCounts = {}
        /\ (pc[w] \in {"return", "done"} /\ conn[w] = None) =>
              CreationKey(w) \in DOMAIN results.ErrorCounts

\* one worker failed to open and returned, the other one sent successfully
C10_Witness ==
    /\ \E w \in Workers :
          /\ pc[w] = "done"
          /\ CreationKey(w) \in DOMAIN results.ErrorCounts
    /\ results.SuccessfulReqs >= 1
    /\ results.FailedReqs = 1

\* the step that records a failed send of worker w
C11_Step ==
    \A w \in Workers :
        (pc[w] = "body" /\ out[w].kind = "send" /\ pc'[w] # "body") =>
            /\ out[w].key = <<"send_failed", w, iter[w]>>
            /\ out[w].key \notin DOMAIN results.ErrorCounts
            /\ DOMAIN results'.ErrorCounts =
                  DOMAIN results.ErrorCounts \cup {out[w].key}
            /\ results'.ErrorCounts[out[w].key] = 1
            /\ results'.FailedReqs = results.FailedReqs + 1
            /\ results'.TotalRequests = results.TotalRequests
            /\ pc'[w] = "loop"
            /\ iter'[w] = iter[w] + 1

\* C11: a failed send of iteration i of worker id records exactly one
\* failure, under the key send_failed_<id>_<i> that was not recorded before
\* (no retry), and the worker goes back to its loop with i + 1.
C11_SendFailure == [][C11_Step]_vars

\* a worker whose first send failed is in its second send
C11_Witness ==
    \E w \in Workers :
        /\ <<"send_failed", w, 0>> \in DOMAIN results.ErrorCounts
        /\ pc[w] = "send" /\ iter[w] = 1

\* C12: a completed run in which every open failed has TotalRequests =
\* FailedReqs = Connections and SuccessfulReqs = 0, and every failure is
\* counted in the category categorizeError gives for its message.
C12_AllOpensFail ==
    (mpc = "done" /\ \A w \in Workers : conn[w] = None) =>
        /\ results.TotalRequests = opts.Connections
        /\ results.FailedReqs = opts.Connections
        /\ results.SuccessfulReqs = 0
        /\ report.totalRequests = opts.Connections
        /\ report.failedReqs = opts.Connections
        /\ report.successfulReqs = 0
        /\ CategoryCountSum(results, Categories) = opts.Connections
        /\ \A c \in Categories :
              LET cat == results.ErrorCategories[c]
              IN  /\ Len(cat.Examples) = cat.Count
                  /\ \A k \in 1..Len(cat.Examples) :
                        /\ cat.Examples[k] \in OpenErrors
                        /\ categorizeError(cat.Examples[k]) = c

\* two workers failed to open, one of them after the signal was set while
\* Run was still spawning, and the run completed
C12_Witness ==
    /\ mpc = "done" /\ opts.Connections = 2
    /\ \A w \in Workers : conn[w] = None
    /\ results.FailedReqs = 2

\* C13: a completed run in which every open and every send succeeded and
\* every worker ran its whole loop reports total = success = Connections *
\* Loop, no failure and a success rate of 100.
C13_AllSucceed ==
    ( /\ mpc = "done"
      /\ \A w \in Workers : LoopCompleted(w)
      /\ DOMAIN results.ErrorCounts = {} )
    => /\ report.totalRequests = opts.Connections * opts.Loop
       /\ report.successfulReqs = opts.Connections * opts.Loop
       /\ report.failedReqs = 0
       /\ report.successRate.den > 0
       /\ report.successRate.num = 100 * report.successRate.den

\* a run of two workers with one repeat each, all successful, has reported
C13_Witness ==
    /\ mpc = "done" /\ report.computed
    /\ opts.Connections = 2 /\ opts.Loop = 1
    /\ \A w \in Workers : LoopCompleted(w)
    /\ report.successfulReqs = 2 /\ report.failedReqs = 0

\* C14: a completed run with zero total attempts reports a success rate of
\* 0, not a NaN.
C14_ZeroAttemptsRateIsZero ==
    (report.computed /\ report.totalRequests = 0) =>
        IsZero(report.successRate) /\ ~IsNaN(report.successRate)

\* C15: the P50 of the report is the element of the ascending-sorted latency
\* samples at index floor(50 * N / 100), clamped to N - 1.
C15_ReportP50IsSortedMedian ==
    (report.computed /\ Len(results.Latencies) > 0) =>
        LET sorted == SortSlice(results.Latencies)
            n      == Len(sorted)
            index  == (50 * n) \div 100
        IN  report.p50Latency = sorted[(IF index >= n THEN n - 1 ELSE index) + 1]

\* C16: calculatePercentile returns 0 for an empty slice and otherwise, for
\* any order of the input, the element at index floor(p * n / 100) clamped
\* to n - 1 of the ascending order: a sample with at most index samples
\* below it and more than index samples not above it.
C16_Percentile ==
    (call.fn = "calculatePercentile" /\ call.returned) =>
        LET s     == call.arg
            n     == Len(s)
            p     == call.percentile
            index == IF (p * n) \div 100 >= n THEN n - 1 ELSE (p * n) \div 100
        IN  /\ n = 0 => call.ret = 0
            /\ n > 0 =>
                  /\ \E i \in 1..n : s[i] = call.ret
                  /\ Cardinality({i \in 1..n : s[i] < call.ret}) <= index
                  /\ Cardinality({i \in 1..n : s[i] <= call.ret}) > index
            /\ (n = 5 /\ {s[i] : i \in 1..n} = 1..5) =>
                  /\ p = 50 => call.ret = 3
                  /\ p = 90 => call.ret = 5
                  /\ p = 10 => call.ret = 1

\* P90 of the five samples passed out of order came back as 5
C16_Witness ==
    /\ call.fn = "calculatePercentile" /\ call.returned
    /\ call.arg = <<3, 1, 5, 2, 4>> /\ call.percentile = 90
    /\ call.ret = 5

\* C17: every non-nil error is classified into one of the nine categories,
\* each of which has its entry in the aggregate.
C17_ClassifierTotal ==
    (call.fn = "categorizeError" /\ call.returned /\ call.err # NilErr) =>
        /\ call.ret \in { "timeout", "connection_refused", "network_error",
                          "authentication_failure", "protocol_error",
                          "resource_exhaustion", "unexpected_response",
                          "invalid_data", "unknown" }
        /\ call.ret \in DOMAIN results.ErrorCategories

\* a message that matches no rule came back as unknown
C17_Witness ==
    /\ call.fn = "categorizeError" /\ call.returned
    /\ call.err = <<"E", "O", "F">> /\ call.ret = "unknown"

\* the rules in the order of their priority, and the patterns of each
PriorityOrder ==
    << ErrorCategoryTimeout, ErrorCategoryConnectionRefused,
       ErrorCategoryNetworkError, ErrorCategoryAuthFailure,
       ErrorCategoryProtocolError, ErrorCategoryResourceExhaustion,
       ErrorCategoryUnexpectedResponse, ErrorCategoryInvalidData >>

PatternsOf(c) ==
    CASE c = ErrorCategoryTimeout            -> PatternsTimeout
      [] c = ErrorCategoryConnectionRefused  -> PatternsConnectionRefused
      [] c = ErrorCategoryNetworkError       -> PatternsNetworkError
      [] c = ErrorCategoryAuthFailure        -> PatternsAuthFailure
      [] c = ErrorCategoryProtocolError      -> PatternsProtocolError
      [] c = ErrorCategoryResourceExhaustion -> PatternsResourceExhaustion
      [] c = ErrorCategoryUnexpectedResponse -> PatternsUnexpectedResponse
      [] c = ErrorCategoryInvalidData        -> PatternsInvalidData

\* C18: the category returned is the earliest in the priority order one of
\* whose patterns occurs in the message, letter case ignored, and unknown
\* when none does; a message with both "timeout" and "invalid" is a timeout,
\* and so is "handshake timeout".
C18_ClassifierPriority ==
    (call.fn = "categorizeError" /\ call.returned /\ call.err # NilErr) =>
        LET hits == { k \in 1..Len(PriorityOrder) :
                         ContainsAny(ToLower(call.err), PatternsOf(PriorityOrder[k])) }
        IN  /\ hits = {} => call.ret = ErrorCategoryUnknown
            /\ hits # {} =>
                  \E k \in hits : /\ call.ret = PriorityOrder[k]
                                  /\ \A j \in hits : k <= j
            /\ call.err \in { <<"t", "i", "m", "e", "o", "u", "t", " ", "i", "n", "v", "a", "l", "i", "d">>, <<"i", "n", "v", "a", "l", "i", "d", " ", "f", "r", "a", "m", "e", ":", " ", "T", "i", "m", "e", "o", "u", "t">>,
                              <<"h", "a", "n", "d", "s", "h", "a", "k", "e", " ", "t", "i", "m", "e", "o", "u", "t">>, <<"T", "L", "S", " ", "H", "a", "n", "d", "s", "h", "a", "k", "e", " ", "T", "i", "m", "e", "o", "u", "t">> }
                  => call.ret = "timeout"
            /\ call.err = <<"i", "n", "v", "a", "l", "i", "d", " ", "r", "e", "s", "p", "o", "n", "s", "e">> => call.ret = "unexpected_response"
            /\ call.err = <<"I", "n", "v", "a", "l", "i", "d", " ", "f", "r", "a", "m", "e">> => call.ret = "invalid_data"

\* a mixed-case message that matches the timeout, the protocol and no
\* earlier rule came back as timeout
C18_Witness ==
    /\ call.fn = "categorizeError" /\ call.returned
    /\ call.err = <<"T", "L", "S", " ", "H", "a", "n", "d", "s", "h", "a", "k", "e", " ", "T", "i", "m", "e", "o", "u", "t">> /\ call.ret = "timeout"

\* the messages of the log that categorizeError puts into category c
LogOf(c) ==
    LET InCategory(e) == categorizeError(e) = c
    IN  SelectSeq(call.log, InCategory)

\* C19: after any sequence of recorded failures each category's Count is
\* the number of failures classified into it, and its Examples are the
\* messages of the first min(3, Count) of them in recording order, never
\* more than 3.
C19_ExamplesCapped ==
    call.fn = "recordError" =>
        \A c \in Categories :
            LET cat == results.ErrorCategories[c]
                n   == Len(LogOf(c))
            IN  /\ cat.Count = n
                /\ Len(cat.Examples) <= 3
                /\ cat.Examples = SubSeq(LogOf(c), 1, IF n < 3 THEN n ELSE 3)

\* four timeouts were recorded: the count is 4, the examples are the first 3
C19_Witness ==
    /\ call.fn = "recordError"
    /\ results.ErrorCategories["timeout"].Count = 4
    /\ results.ErrorCategories["timeout"].Examples =
          << <<"i", "/", "o", " ", "T", "i", "m", "e", "o", "u", "t">>, <<"t", "i", "m", "e", "o", "u", "t">>, <<"i", "/", "o", " ", "T", "i", "m", "e", "o", "u", "t">> >>
    /\ call.log[4] = <<"t", "i", "m", "e", "o", "u", "t">>

\* C20: runTest exits on exactly the options that have a malformed duration,
\* Connections <= 0, Loop <= 0, an empty or all-blank message, or a message
\* that after trimming starts with '{' or '[' and is not valid JSON (or a
\* URL that does not validate), and goes on to NewLoadTest on all others;
\* after the exit no LoadTest exists and nothing has run.
C20_Validation ==
    /\ mpc # "runTest" =>
          LET m == TrimSpace(opts.Message)
          IN  mpc = "exited" <=>
                 \/ ~validateWebSocketURL(opts.URL)
                 \/ ~ParseDuration(opts.Duration).ok
                 \/ opts.Connections <= 0
                 \/ opts.Loop <= 0
                 \/ m = <<>>
                 \/ (m # <<>> /\ m[1] \in {"{", "["} /\ ~isValidJSON(opts.Message))
    /\ ( /\ mpc # "runTest"
         /\ \/ opts.Duration = <<"i", "n", "v", "a", "l", "i", "d">>
            \/ opts.Message \in { <<>>, <<" ", " ">>, <<"{", "\"", "a", "\"", ":", "1">>, <<"[", "1", ",">>, <<" ", "{", "a">> } )
       => mpc = "exited"
    /\ ( /\ mpc # "runTest"
         /\ opts.URL \in { <<"w", "s", ":", "/", "/", "h">>, <<"h">> }
         /\ opts.Duration = <<"1", "0", "s">>
         /\ opts.Connections = 1 /\ opts.Loop = 1
         /\ opts.Message \in { <<"h", "i">>, <<"{", "}">>, <<"{", "\"", "a", "\"", ":", "1", "}">>, <<"[", "1", ",", "2", "]">>, <<" ", "{", "\"", "a", "\"", ":", "1", "}">> } )
       => mpc # "exited"
    /\ mpc = "exited" =>
          /\ runErr \notin {None, "nil"}
          /\ results = NilResults
          /\ \A w \in DOMAIN pc : pc[w] = "unspawned" /\ conn[w] = None
          /\ spc = "unstarted"
          /\ wg = 0 /\ pool = 0 /\ clock = 0
          /\ ~cancelled
          /\ report = NoReport

\* runTest has exited on a message that looks like JSON and is not, all
\* other options being valid
C20_Witness ==
    /\ mpc = "exited"
    /\ opts.Message = <<"{", "\"", "a", "\"", ":", "1">>
    /\ opts.URL = <<"w", "s", ":", "/", "/", "h">> /\ opts.Duration = <<"1", "0", "s">>
    /\ opts.Connections = 1 /\ opts.Loop = 1

\* C21: deriving the report is repeatable and changes nothing.  The report
\* printResults has derived is the one derived anew from the aggregate as
\* it is after the step; from printResults on no step changes a field of
\* the aggregate, the order of the latency samples included; and the entry
\* addEntry stores is the one derived anew from the aggregate afterwards.
C21_Step ==
    /\ report'.computed => report' = MakeReport(results')
    /\ mpc \in {"printing", "done", "returned"} => results' = results
    /\ history' # history =>
          history'[Len(history')] = MakeEntry(history, results', opts)

C21_ReportIdempotent == [][C21_Step]_vars

\* a run with two samples in descending order was printed and stored
C21_Witness ==
    /\ mpc = "returned"
    /\ report.computed
    /\ Len(history) = 1
    /\ results.Latencies = <<2, 1>>

\* C22: a worker whose connection opened has attempted the close of that
\* connection by the time it returns and gives its slot back.
C22_CloseBeforeRelease ==
    \A w \in Workers :
        (pc[w] \in {"return", "done"} /\ conn[w] # None) =>
            conn[w] \in {"closed", "closeFailed"}

\* the step in which a worker attempts its close
C23_Step ==
    \A w \in Workers :
        (pc[w] = "close" /\ pc'[w] # "close") => results' = results

\* C23: the close attempt, failed or not, leaves every field of the
\* aggregate as it was.
C23_CloseChangesNothing == [][C23_Step]_vars

\* a run whose only outcomes are successes has reported no failure although
\* a close failed
C23_Witness ==
    /\ report.computed
    /\ \E w \in Workers : conn[w] = "closeFailed"
    /\ report.successfulReqs >= 1 /\ report.failedReqs = 0

\* C24: the entry history receives for a completed run carries the values
\* of the printed report: the counts, the success rate, the average (the
\* report's is truncated to a whole unit), the P50 latency, the requests
\* per second and the throughput.
C24_HistoryGetsPrintedReport ==
    (mpc = "returned" /\ Len(history) > 0) =>
        LET e == history[Len(history)]
        IN  /\ e.TotalRequests = report.totalRequests
            /\ e.SuccessfulReqs = report.successfulReqs
            /\ e.FailedReqs = report.failedReqs
            /\ e.SuccessRate = report.successRate
            /\ e.AvgLatency.num \div e.AvgLatency.den = report.avgLatency
            /\ e.P50Latency = report.p50Latency
            /\ e.RequestsPerSec = report.rps
            /\ e.Throughput = report.throughput

\* C25: the identifiers of the stored entries are strictly increasing in
\* sequence order: the first entry has ID 1 and every later entry the ID of
\* the entry before it plus 1, after any addEntry and clearHistory calls.
C25_IdsIncrease ==
    call.fn = "history" =>
        /\ Len(history) > 0 => history[1].ID = 1
        /\ \A i \in 2..Len(history) : history[i].ID = history[i - 1].ID + 1

\* entries were added, cleared, and two or more added again
C25_Witness ==
    /\ call.fn = "history"
    /\ call.cleared
    /\ Len(history) >= 2

\* C26: generateComparisonChart plots and saves a chart only when at least
\* 2 entries are selected, min(limit, number of entries) >= 2, and then it
\* plots exactly the selected entries; with fewer it prints one of its two
\* messages, plots nothing and writes no chart file.
C26_ChartNeedsTwo ==
    (call.fn = "history" /\ call.op = "generateComparisonChart") =>
        LET n        == Len(history)
            selected == IF call.limit < n THEN call.limit ELSE n
        IN  IF selected >= 2
            THEN /\ call.message = ""
                 /\ Len(call.values) = selected
                 /\ \A i \in 1..selected :
                       call.values[i] =
                           MetricValue(history[n - selected + i], call.metric)
            ELSE /\ call.message \in {NoHistoryFound, NeedTwoResults}
                 /\ call.values = <<>>
                 /\ ~call.saved

\* the last 2 of 3 entries were plotted and the chart file written
C26_Witness ==
    /\ call.fn = "history" /\ call.op = "generateComparisonChart"
    /\ Len(history) = 3
    /\ call.limit = 2
    /\ Len(call.values) = 2
    /\ call.saved

\* C27: the sampler has stopped only when Run is past wg.Wait, every worker
\* has returned and the end time is recorded.
C27_SamplerStopsAtCompleted ==
    spc = "done" =>
        /\ Phase = "Completed"
        /\ AllReturned
        /\ results.EndTime # 0

\* C28: every step that writes a field of the aggregate is taken while a
\* writer holds results.mu.
C28_WritesUnderLock == [][results' # results => mu.writers # {}]_vars

\* the signal is set by the timer branch of Run's select or by a request
\* from outside that moves neither Run nor a worker, it stays set, and Run
\* leaves Running for Draining only with the signal set
C29_Step ==
    /\ (~cancelled /\ cancelled') =>
          \/ mpc = "select" /\ mpc' = "wait"
          \/ /\ mpc' = mpc /\ results' = results
             /\ pc' = pc /\ out' = out /\ spc' = spc
    /\ cancelled => cancelled'
    /\ (Phase = "Running" /\ Phase' = "Draining") => cancelled'

\* C29: the cancellation signal is set, and Running left for Draining, when
\* the duration elapses or a cancellation is requested from outside, and at
\* no other time; no recording of a failure sets it.
C29_CancelOnlyByTimerOrRequest == [][C29_Step]_vars

\* Run is draining after failures were recorded before the signal
C29_Witness ==
    /\ cancelled /\ mpc = "wait"
    /\ results.FailedReqs >= 2

\* outside a recording the peak is the largest latency sample, and no step
\* lowers it
C30_Step ==
    /\ mu'.writers = {} =>
          results'.PeakResponseTime = SeqMax(results'.Latencies)
    /\ results'.PeakResponseTime >= results.PeakResponseTime

\* C30: in every state outside a record step PeakResponseTime is the
\* maximum of the latency samples recorded so far (0 for none), and it
\* never decreases.
C30_PeakIsMax == [][C30_Step]_vars

\* a smaller latency was recorded after a larger one
C30_Witness ==
    /\ mu.writers = {}
    /\ results.Latencies = <<2, 1>>
    /\ results.PeakResponseTime = 2

\* C31: the latency sum is the sum of the recorded success latencies and
\* there is one sample per success; the reported average is that sum divided
\* by the success count (a time.Duration, so a whole number of units) when
\* there was a success, and 0 when there was none.
C31_AverageLatency ==
    /\ Len(results.Latencies) = results.SuccessfulReqs
    /\ results.TotalLatency = SeqSum(results.Latencies)
    /\ report.computed =>
          report.avgLatency =
              IF results.SuccessfulReqs > 0
              THEN SeqSum(results.Latencies) \div results.SuccessfulReqs
              ELSE 0

\* a report over two successes of latencies 1 and 2
C31_Witness ==
    /\ report.computed
    /\ results.SuccessfulReqs = 2
    /\ results.TotalLatency = 3
    /\ report.avgLatency = 1

\* C32: within one run no two failures share an error-signature key: every
\* count in ErrorCounts is 1, the number of keys is FailedReqs, and the
\* keys are FailedReqs different strings once formatted.
C32_KeysUnique ==
    mu.writers = {} =>
        /\ \A k \in DOMAIN results.ErrorCounts : results.ErrorCounts[k] = 1
        /\ Cardinality(DOMAIN results.ErrorCounts) = results.FailedReqs
        /\ Cardinality({ ErrorType(k) : k \in DOMAIN results.ErrorCounts })
              = results.FailedReqs

\* one worker failed both of its two sends
C32_Witness ==
    /\ mu.writers = {}
    /\ \E w \in Workers :
          {<<"send_failed", w, 0>>, <<"send_failed", w, 1>>}
              \subseteq DOMAIN results.ErrorCounts
    /\ results.FailedReqs >= 2

\* C33: every configuration that passed validateTestOptions and with which
\* Run was entered has Connections >= 1, Loop >= 1 and a duration that
\* parses to a strictly positive interval.
C33_RunConfigInvariant ==
    mpc \notin {"runTest", "exited", "idle"} =>
        /\ opts.Connections >= 1
        /\ opts.Loop >= 1
        /\ ParseDuration(opts.Duration).ok
        /\ ParseDuration(opts.Duration).d > 0

\* C34: the gauges a sampler tick emits include error_category_count only
\* for the categories whose count, as read on that tick, is not zero.
C34_OnlyNonZeroGauges ==
    spc = "read" =>
        \A g \in EmittedGauges(Sample(results)) :
            g[1] = "error_category_count" => g[3] # 0

\* C35: whenever no writer is inside a record step, the Count fields of the
\* nine error categories add up to FailedReqs, and there are nine of them.
C35_CategoryCountsSumToFailures ==
    mu.writers = {} =>
        /\ DOMAIN results.ErrorCategories = Categories
        /\ CategoryCountSum(results, Categories) = results.FailedReqs

\* a creation failure and a send failure, counted in two categories
C35_Witness ==
    /\ mu.writers = {}
    /\ results.FailedReqs = 2
    /\ results.ErrorCategories[ErrorCategoryConnectionRefused].Count = 1
    /\ results.ErrorCategories[ErrorCategoryTimeout].Count = 1

\* with the signal set: a step records at most one outcome, and only as the
\* record step of a worker; that worker is past its last recording position
\* afterwards; and no worker comes back to a recording position
C36_Step ==
    cancelled =>
        /\ Outcomes(results') # Outcomes(results) =>
              /\ Outcomes(results') = Outcomes(results) + 1
              /\ \E w \in Workers :
                    /\ pc[w] = "body"
                    /\ pc'[w] \notin RecordingPositions
        /\ \A w \in Workers :
              pc[w] \notin RecordingPositions => pc'[w] \notin RecordingPositions

\* C36: after the cancellation signal is set each worker records at most
\* one further outcome, the send it was in or the failure of its open, so
\* at most Connections outcomes are recorded after cancellation.
C36_OneOutcomeAfterCancel == [][C36_Step]_vars

\* Run is draining and a worker records the failure of an open that came
\* after the signal, while another worker records nothing more
C36_Witness ==
    /\ cancelled /\ mpc = "wait"
    /\ \E w \in Workers : pc[w] = "body" /\ out[w].kind = "create"
    /\ \E w \in Workers : pc[w] = "done" /\ conn[w] = "open"

\* C37: TotalRequests never exceeds Connections * Loop.  A worker whose open
\* failed has its creation key and no send key; the send keys of a worker
\* carry iterations below Loop, and a worker inside a send or its record is
\* in an iteration below Loop.
C37_TotalBounded ==
    /\ results.TotalRequests <= opts.Connections * opts.Loop
    /\ Outcomes(results) <= opts.Connections * opts.Loop
    /\ DOMAIN results.ErrorCounts \subseteq
          UNION { {CreationKey(w)} \cup SendKeys(w) : w \in Workers }
    /\ \A w \in Workers :
          /\ CreationKey(w) \in DOMAIN results.ErrorCounts =>
                /\ SendKeys(w) \cap DOMAIN results.ErrorCounts = {}
                /\ conn[w] = None
          /\ (pc[w] \in {"send", "lock", "loadTotal", "storeTotal", "body"}
                /\ conn[w] # None) => iter[w] < opts.Loop

\* two workers, one repeat each: one open failed, the other worker's send
\* succeeded, and both outcomes are in the total
C37_Witness ==
    /\ opts.Connections = 2 /\ opts.Loop = 1
    /\ results.TotalRequests = 2
    /\ results.SuccessfulReqs = 1
    /\ \E w \in Workers : CreationKey(w) \in DOMAIN results.ErrorCounts

\* C38: as long as neither the duration has elapsed nor a cancellation was
\* requested, Run has not gone past its select: it is not draining or
\* completed, no end time is recorded and nothing is reported, whatever the
\* workers have done; and the sampler, once started, has not stopped.
C38_NoCompletionBeforeSignal ==
    ~cancelled =>
        /\ Phase \in {"Idle", "Failed", "Running"}
        /\ results.EndTime = 0
        /\ ~report.computed
        /\ mpc \in {"spawn", "select"} => spc \in {"select", "read"}
        /\ spc # "done"

\* every worker has returned, the signal is not set, and Run is still at
\* its select with the sampler running
C38_Witness ==
    /\ ~cancelled
    /\ AllReturned
    /\ mpc = "select"
    /\ spc \in {"select", "read"}
    /\ results.TotalRequests = opts.Connections * opts.Loop

\* C39: Run starts one worker per loop pass, Connections in all, and a
\* worker that has reached the gate can take its slot at once: the send on
\* the channel is enabled in every state in which a worker is at it.
C39_GateNeverBlocks ==
    /\ \A w \in Workers : pc[w] = "acquire" => ENABLED Acquire(w)
    /\ Cardinality({ w \in Workers : pc[w] # "unspawned" }) = nexti
    /\ nexti <= opts.Connections
    /\ mpc \in {"select", "wait", "end", "print", "printing", "done"} =>
          nexti = opts.Connections

\* one worker holds a slot and the other has just reached the gate
C39_Witness ==
    /\ opts.Connections = 2
    /\ pool = 1
    /\ \E w \in Workers : pc[w] = "acquire"
    /\ \E w \in Workers : pc[w] \in {"open", "loop", "send"}

\* C40: in a run that has left Idle for Running, once the cancellation
\* signal is set the sampler eventually returns.
C40_SamplerTerminates ==
    (cancelled /\ Phase \in {"Running", "Draining", "Completed"}) ~> spc = "done"

\* the sampler has returned after the signal, Run still waiting for a worker
C40_Witness ==
    /\ cancelled
    /\ spc = "done"
    /\ mpc = "wait"
    /\ ~AllReturned

=============================================================================
